---- MODULE Spec2Model ----
(***************************************************************************)
(* A model of ollama-agent: the session store (agent/session_manager.py),  *)
(* the content extractor (utils.py), the event classifier                  *)
(* (agent/events.py), the streamed runner (agent/runner.py,                *)
(* agent/agent_manager.py, agent/agent.py), the renderers of a streamed    *)
(* turn (cli.py, streaming.py, main.py, tui/), the task store (tasks.py),  *)
(* the built-in tools (agent/tools.py), the connections to the MCP servers *)
(* (settings/mcp.py), the Mem0 manager (memory/manager.py) and the chat    *)
(* screen of the TUI with its dialogs (tui/app.py).                        *)
(*                                                                         *)
(* Values of different Python types never share a TLA+ type: every value   *)
(* that may be of several types is a tuple whose first element is a tag,   *)
(* so that two values are compared tag first.  A Python str is a sequence  *)
(* of one-character strings.                                               *)
(***************************************************************************)
EXTENDS Integers, Sequences, FiniteSets, TLC

VARIABLES
    \* ---- session store (SessionManager and the sqlite file it reads) ----
    db_exists,    \* storage_path.exists()
    sessions,     \* table agent_sessions: session id -> [created_at, updated_at]
    messages,     \* table agent_messages, in rowid order
    session_id,   \* SessionManager.session_id
    session,      \* SessionManager.session: the id its SQLiteSession is bound to
    uuid_issued,  \* how many ids uuid.uuid4() has produced
    now,          \* the clock behind CURRENT_TIMESTAMP
    last,         \* the last call of the session store: [op, arg, ret, failed, before]
    \* ---- pure functions (extract_text, _extract_preview_text, event_payloads) ----
    input,        \* the argument drawn for the function
    output,       \* the last application: [fn, arg, ret]
    \* ---- streamed runner (run_async_streamed over an AgentManager) ----
    agent_manager,       \* the AgentManager: its fields
    capabilities_cache,  \* lru_cache of _capabilities_for_model: model -> Miss or Hit(capabilities)
    stream,              \* the last run of run_async_streamed: what its consumer received
    \* ---- the application around the runner ----
    ollama_agent,        \* the OllamaAgent: its fields
    \* ---- the front ends that render a streamed turn ----
    renderer,            \* the renderer of the turn: its fields and what it wrote
    turn,                \* the loop that consumes the stream: its position and exit
    \* ---- the task store (TaskManager and its directory) ----
    tasks_dir,           \* the files of tasks_dir: stem -> document or NoFile
    task_map,            \* the map the store stands for: stem -> task or None
    task_call,           \* the last call of the task store: [op, arg, ret, before, stored]
    \* ---- the built-in tools (agent/tools.py) ----
    builtin_tool_timeout,  \* the global _BUILTIN_TOOL_TIMEOUT
    tool_result,         \* the last call of a built-in tool: its arguments and its result
    \* ---- the MCP servers (settings/mcp.py) ----
    mcp,                 \* the connections to the configured servers and the running list
    \* ---- the memory manager (memory/manager.py) ----
    mem0,                \* the globals of the module and the threads that call it
    \* ---- the chat screen of the TUI (tui/app.py) ----
    chat                 \* the session of the agent, the responses in flight, the chat log

sessVars == <<db_exists, sessions, messages, session_id, session, uuid_issued, now, last>>
pureVars == <<input, output>>
runVars == <<agent_manager, capabilities_cache, stream>>
taskVars == <<tasks_dir, task_map, task_call>>
appVars == <<ollama_agent, renderer, turn, tasks_dir, task_map, task_call>>
sideVars == <<builtin_tool_timeout, tool_result, mcp, mem0, chat>>
vars == <<db_exists, sessions, messages, session_id, session, uuid_issued, now, last,
          input, output, agent_manager, capabilities_cache, stream, ollama_agent,
          renderer, turn, tasks_dir, task_map, task_call,
          builtin_tool_timeout, tool_result, mcp, mem0, chat>>

----------------------------------------------------------------------------
(* Bounds of the model. *)

\* ids uuid.uuid4() may produce in one run
MaxUuid == 2
\* ids of sessions that other runs of the program left in the store
NumExternal == 1
\* rows of agent_messages
MaxMessages == 2
\* the last tick of the clock
MaxTime == 1
\* characters of a short string
MaxStrLen == 2
\* elements of a list
MaxListLen == 3
\* wrappers (a list, a mapping) around a value
MaxNest == 2

----------------------------------------------------------------------------
(* Python values. *)

\* None, as an id, a blob or a return value
None == <<"None">>

\* str(uuid.uuid4()): the n-th id generated.  uuid4 draws 122 random bits; the
\* model takes every draw to be an id that was never seen before.
Uuid(n) == <<"uuid", n>>
ExternalIds == {<<"ext", n>> : n \in 1..NumExternal}
IssuedIds == {Uuid(n) : n \in 1..uuid_issued}

Range(s) == {s[i] : i \in 1..Len(s)}

\* s[:n]
Take(s, n) == SubSeq(s, 1, IF Len(s) < n THEN Len(s) ELSE n)

\* what a call of the session store finds: the binding and the rows
Snapshot ==
    [session_id |-> session_id, session |-> session, sessions |-> sessions,
     messages |-> messages]

\* the record of a call: its name, argument and result, whether a storage call
\* raised inside it, and the state it was made in
Call(op, arg, ret, failed) ==
    [op |-> op, arg |-> arg, ret |-> ret, failed |-> failed, before |-> Snapshot]

----------------------------------------------------------------------------
(* Python strings and the values json.loads returns. *)

JStr(s) == <<"str", s>>
JInt(n) == <<"int", n>>
JBool(b) == <<"bool", b>>
JList(xs) == <<"list", xs>>
\* a dict keeps its items in insertion order: a sequence of <<key, value>>
JDict(items) == <<"dict", items>>

IsStr(v) == v[1] = "str"
IsList(v) == v[1] = "list"
IsDict(v) == v[1] = "dict"

\* key in d
DictHas(d, key) == \E i \in 1..Len(d[2]) : d[2][i][1] = key
\* d[key]
DictItem(d, key) == d[2][CHOOSE i \in 1..Len(d[2]) : d[2][i][1] = key][2]
\* d.get(key)
DictGet(d, key) == IF DictHas(d, key) THEN DictItem(d, key) ELSE None

Whitespace == {" ", "\t", "\n"}

RECURSIVE LStrip(_)
LStrip(s) == IF s # <<>> /\ Head(s) \in Whitespace THEN LStrip(Tail(s)) ELSE s

RECURSIVE RStrip(_)
RStrip(s) ==
    IF s # <<>> /\ s[Len(s)] \in Whitespace THEN RStrip(SubSeq(s, 1, Len(s) - 1)) ELSE s

\* s.strip()
PyStrip(s) == RStrip(LStrip(s))

\* sep.join(parts)
RECURSIVE PyJoin(_, _)
PyJoin(sep, parts) ==
    IF parts = <<>> THEN <<>>
    ELSE IF Len(parts) = 1 THEN parts[1]
    ELSE parts[1] \o sep \o PyJoin(sep, Tail(parts))

DigitChar == <<"0", "1", "2", "3", "4", "5", "6", "7", "8", "9">>

\* str(n) of a non-negative int
RECURSIVE Digits(_)
Digits(n) ==
    IF n < 10 THEN <<DigitChar[n + 1]>> ELSE Digits(n \div 10) \o <<DigitChar[(n % 10) + 1]>>

\* the characters of a dict key (the keys of the model)
KeyChars(key) ==
    CASE key = "text" -> <<"t", "e", "x", "t">>
      [] key = "content" -> <<"c", "o", "n", "t", "e", "n", "t">>
      [] key = "role" -> <<"r", "o", "l", "e">>

\* repr(v).  The strings of the model hold no quote, backslash or control
\* character, so repr of a str is the str between single quotes.
RECURSIVE PyRepr(_)
PyRepr(v) ==
    CASE v[1] = "str" -> <<"'">> \o v[2] \o <<"'">>
      [] v[1] = "int" -> Digits(v[2])
      [] v[1] = "bool" -> IF v[2] THEN <<"T", "r", "u", "e">> ELSE <<"F", "a", "l", "s", "e">>
      [] v[1] = "None" -> <<"N", "o", "n", "e">>
      [] v[1] = "list" ->
            <<"[">> \o PyJoin(<<",", " ">>, [i \in 1..Len(v[2]) |-> PyRepr(v[2][i])]) \o <<"]">>
      [] v[1] = "dict" ->
            <<"{">>
            \o PyJoin(<<",", " ">>,
                      [i \in 1..Len(v[2]) |->
                          <<"'">> \o KeyChars(v[2][i][1]) \o <<"'", ":", " ">>
                          \o PyRepr(v[2][i][2])])
            \o <<"}">>

\* str(v)
PyStr(v) == IF IsStr(v) THEN v[2] ELSE PyRepr(v)

----------------------------------------------------------------------------
(* utils.py: the content extractor. *)

RECURSIVE extract_text(_)

\* extract_text joining every part, the empty ones too
extract_text_keeps_empty(content) ==
    IF IsStr(content) THEN content[2]
    ELSE IF IsList(content) THEN
        LET parts == [i \in 1..Len(content[2]) |-> extract_text(content[2][i])]
        IN PyStrip(PyJoin(<<" ">>, parts))
    ELSE IF IsDict(content) THEN
        LET text_value == DictGet(content, "text")
        IN IF IsStr(text_value) THEN text_value[2]
           ELSE IF DictHas(content, "content") THEN extract_text(DictItem(content, "content"))
           ELSE <<>>
    ELSE <<>>

extract_text(content) ==
    IF IsStr(content) THEN content[2]
    ELSE IF IsList(content) THEN
        LET parts == [i \in 1..Len(content[2]) |-> extract_text(content[2][i])]
        IN PyStrip(PyJoin(<<" ">>, SelectSeq(parts, LAMBDA part : part # <<>>)))
    ELSE IF IsDict(content) THEN
        LET text_value == DictGet(content, "text")
        IN IF IsStr(text_value) THEN text_value[2]
           ELSE IF DictHas(content, "content") THEN extract_text(DictItem(content, "content"))
           ELSE <<>>
    ELSE <<>>

----------------------------------------------------------------------------
(* agent/session_manager.py: the preview of a stored message. *)

\* message_data of a row, by what json.loads makes of it: the empty string,
\* a text that is not JSON, or the serialization of a JSON value.  A session
\* without a message has no blob (None).
EmptyBlob == <<"blob", "empty">>
InvalidBlob == <<"blob", "invalid">>
JsonBlob(v) == <<"blob", "json", v>>

\* bool(message_blob)
BlobTruthy(blob) == blob # None /\ blob # EmptyBlob

\* json.loads(text): <<"ok", value>> or the exception raised
json_loads(blob) ==
    IF blob = None THEN <<"TypeError">>
    ELSE IF blob[2] = "json" THEN <<"ok", blob[3]>>
    ELSE <<"JSONDecodeError">>

PreviewLimit == 50

NoMessages == <<"N", "o", " ", "m", "e", "s", "s", "a", "g", "e", "s">>
NoContent == <<"N", "o", " ", "c", "o", "n", "t", "e", "n", "t">>

\* _extract_preview_text cutting the extracted text only, not the fallback
extract_preview_text_uncut_fallback(message_blob) ==
    IF ~BlobTruthy(message_blob) THEN NoMessages
    ELSE LET loaded == json_loads(message_blob)
         IN IF loaded[1] # "ok" THEN NoContent
            ELSE LET message_data == loaded[2]
                     content == IF IsDict(message_data)
                                  THEN DictGet(message_data, "content")
                                  ELSE message_data
                     text_preview == extract_text(content)
                 IN IF text_preview # <<>>
                      THEN Take(text_preview, PreviewLimit)
                      ELSE PyStr(message_data)

extract_preview_text(message_blob) ==
    IF ~BlobTruthy(message_blob) THEN NoMessages
    ELSE LET loaded == json_loads(message_blob)
         IN IF loaded[1] # "ok" THEN NoContent
            ELSE LET message_data == loaded[2]
                     content == IF IsDict(message_data)
                                  THEN DictGet(message_data, "content")
                                  ELSE message_data
                     text_preview == extract_text(content)
                 IN IF text_preview # <<>>
                      THEN Take(text_preview, PreviewLimit)
                      ELSE Take(PyStr(message_data), PreviewLimit)


----------------------------------------------------------------------------
(* The JSON values the pure functions are applied to. *)

Alphabet == {"a", " "}

RECURSIVE SeqsUpTo(_, _)
\* the sequences over S of length at most n
SeqsUpTo(S, n) ==
    IF n = 0 THEN {<<>>}
    ELSE LET shorter == SeqsUpTo(S, n - 1)
         IN shorter \cup {Append(s, x) : s \in {t \in shorter : Len(t) = n - 1}, x \in S}

\* n times the character "a"
Repeat(n) == [i \in 1..n |-> "a"]

ShortStrs == SeqsUpTo(Alphabet, MaxStrLen)
\* strings around the preview limit
LongStrs == {Repeat(n) : n \in (PreviewLimit - 1)..(PreviewLimit + 1)}

Atoms ==
    {JStr(s) : s \in ShortStrs \cup LongStrs} \cup {JInt(0), JInt(42), JBool(TRUE), None}

SmallAtoms == {JStr(<<>>), JStr(<<"a">>), JStr(<<" ">>), JInt(42), None}

\* the mappings with some of the keys role, text, content, in that order
Dicts(V) ==
    LET Opt(key) == {<<>>} \cup {<< <<key, v>> >> : v \in V}
    IN {JDict(r \o t \o c) : r \in Opt("role"), t \in Opt("text"), c \in Opt("content")}

\* the parts of a list-of-parts content
Parts ==
    {JDict(<< <<"text", JStr(<<"a">>)>> >>),
     JDict(<< <<"text", JStr(<<"a", " ">>)>> >>)}

Lists(V) == {JList(xs) : xs \in SeqsUpTo(V, MaxListLen)}

ListElems == {JStr(<<>>), JStr(<<" ", "a">>), JInt(42)} \cup Parts

Flat == Atoms \cup Dicts(SmallAtoms) \cup Lists(ListElems)

\* the ways a value is wrapped in one more level
Wrappers == {"none", "content", "message", "text_content", "list"}

Wrap(wrapper, v) ==
    CASE wrapper = "content" -> JDict(<< <<"content", v>> >>)
      [] wrapper = "message" -> JDict(<< <<"role", JStr(<<"a">>)>>, <<"content", v>> >>)
      [] wrapper = "text_content" -> JDict(<< <<"text", JInt(0)>>, <<"content", v>> >>)
      [] wrapper = "list" -> JList(<<v, JStr(<<"a">>)>>)
      [] OTHER -> v

RECURSIVE Nested(_, _)
\* v in the wrappers ws, the first innermost
Nested(v, ws) == IF ws = <<>> THEN v ELSE Nested(Wrap(Head(ws), v), Tail(ws))

\* the blobs a row of agent_messages may hold for the value v
BlobsOf(v) == {None, EmptyBlob, InvalidBlob, JsonBlob(v)}

NoCall == [fn |-> "none"]

----------------------------------------------------------------------------
(* The specification of the pure functions: a value is drawn, and the      *)
(* functions are applied to it.                                            *)

\* no built-in tool was called, no MCP server is configured, the memory
\* manager is not loaded, the TUI is not open
SideIdle ==
    /\ builtin_tool_timeout = None
    /\ tool_result = None
    /\ mcp = None
    /\ mem0 = None
    /\ chat = None

SessIdle ==
    /\ db_exists = FALSE
    /\ sessions = <<>>
    /\ messages = <<>>
    /\ session_id = Uuid(1)
    /\ session = Uuid(1)
    /\ uuid_issued = 1
    /\ now = 0
    /\ last = Call("init", None, None, FALSE)

\* no AgentManager is constructed and nothing is run
RunIdle ==
    /\ agent_manager = None
    /\ capabilities_cache = None
    /\ stream = None

\* no TaskManager is constructed
TasksIdle ==
    /\ tasks_dir = None
    /\ task_map = None
    /\ task_call = None

\* no OllamaAgent is constructed
AppIdle ==
    /\ ollama_agent = None
    /\ renderer = None
    /\ turn = None
    /\ TasksIdle

InitExtract ==
    /\ SideIdle
    /\ SessIdle
    /\ RunIdle
    /\ AppIdle
    /\ \E v \in Flat, ws \in [1..MaxNest -> Wrappers] : input = Nested(v, ws)
    /\ output = NoCall

ApplyExtractText ==
    /\ output' = [fn |-> "extract_text", arg |-> input, ret |-> extract_text(input)]
    /\ UNCHANGED <<sideVars, input, sessVars, runVars, appVars>>

ApplyExtractPreview ==
    /\ \E blob \in BlobsOf(input) :
          output' = [fn |-> "_extract_preview_text", arg |-> blob,
                     ret |-> extract_preview_text(blob)]
    /\ UNCHANGED <<sideVars, input, sessVars, runVars, appVars>>

NextExtract == ApplyExtractText \/ ApplyExtractPreview

SpecExtract == InitExtract /\ [][NextExtract]_vars

\* the examples of the content extractor
ExtractExamples ==
    /\ extract_text(JStr(<<"a", " ">>)) = <<"a", " ">>
    /\ extract_text(JList(<<JDict(<< <<"text", JStr(<<"a">>)>> >>),
                            JDict(<< <<"text", JStr(<<"b">>)>> >>)>>)) = <<"a", " ", "b">>
    /\ extract_text(JDict(<< <<"content", JDict(<< <<"text", JStr(<<"x">>)>> >>)>> >>)) = <<"x">>
    /\ extract_text(JInt(42)) = <<>>
    /\ extract_text(JList(<<JStr(<<" ", "a">>), JStr(<<>>), JStr(<<"b", " ">>)>>))
         = <<"a", " ", "b">>
    /\ PyStr(JDict(<< <<"role", JStr(<<"a">>)>>, <<"content", JList(<<JInt(42), None>>)>> >>))
         = <<"{", "'", "r", "o", "l", "e", "'", ":", " ", "'", "a", "'", ",", " ",
             "'", "c", "o", "n", "t", "e", "n", "t", "'", ":", " ",
             "[", "4", "2", ",", " ", "N", "o", "n", "e", "]", "}">>

----------------------------------------------------------------------------
(* agent/session_manager.py: the session store. *)

\* the payloads written to the store in the runs of the session store
SessionBlobs ==
    {JsonBlob(JDict(<< <<"role", JStr(<<"a">>)>>, <<"content", JStr(<<"a">>)>> >>)),
     InvalidBlob}

\* the ids a caller can name: those of other runs and those generated so far
KnownIds == ExternalIds \cup IssuedIds

\* f without the key k
Without(f, k) == [x \in DOMAIN f \ {k} |-> f[x]]

\* the rows of agent_messages of one session, in rowid order
MessagesOf(rows, sid) == SelectSeq(rows, LAMBDA m : m.session_id = sid)

\* uuid.uuid4() coming back with the id it gave last
uuid4_repeats == Uuid(uuid_issued)

\* str(uuid.uuid4())
uuid4 == Uuid(uuid_issued + 1)

\* SQLiteSession(session_id, db_path): the handle, known by the id it is bound
\* to.  Building a handle is taken to succeed.
session_from_id(sid) == sid

\* the assignments of reset_session
ResetBinding ==
    /\ session_id' = uuid4
    /\ session' = session_from_id(session_id')
    /\ uuid_issued' = uuid_issued + 1

reset_session ==
    /\ uuid_issued < MaxUuid
    /\ ResetBinding
    /\ last' = Call("reset_session", None, session_id', FALSE)
    /\ UNCHANGED <<sideVars, db_exists, sessions, messages, now, pureVars, runVars, appVars>>

\* load_session binding the id and keeping the handle of the session before
load_session_keeps_handle ==
    /\ \E sid \in KnownIds :
          /\ session_id' = sid
          /\ last' = Call("load_session", sid, None, FALSE)
    /\ UNCHANGED <<sideVars, db_exists, sessions, messages, session, uuid_issued, now, pureVars, runVars, appVars>>

load_session ==
    /\ \E sid \in KnownIds :
          /\ session_id' = sid
          /\ session' = session_from_id(sid)
          /\ last' = Call("load_session", sid, None, FALSE)
    /\ UNCHANGED <<sideVars, db_exists, sessions, messages, uuid_issued, now, pureVars, runVars, appVars>>

get_session_id ==
    /\ last' = Call("get_session_id", None, session_id, FALSE)
    /\ UNCHANGED <<sideVars, db_exists, sessions, messages, session_id, session, uuid_issued, now,
                   pureVars, runVars, appVars>>

\* the rows the LEFT JOIN of agent_sessions with agent_messages gives for one
\* session: one per message, or a single row of NULLs when it has none
NullRow == [session_id |-> None, message_data |-> None, created_at |-> None]
LeftJoin(sid) ==
    LET own == MessagesOf(messages, sid) IN IF own = <<>> THEN <<NullRow>> ELSE own

\* COUNT(*) in place of COUNT(m.id)
message_count_star(sid) == Len(LeftJoin(sid))

\* COUNT(m.id) over the group of one session
message_count(sid) == Len(SelectSeq(LeftJoin(sid), LAMBDA m : m # NullRow))

\* SELECT message_data ... ORDER BY created_at ASC LIMIT 1: a message of the
\* session with the least created_at (SQL leaves the order of rows with equal
\* keys open), NULL when the session has none
FirstMessages(sid) ==
    LET own == MessagesOf(messages, sid)
    IN IF own = <<>> THEN {None}
       ELSE {own[i].message_data :
               i \in {j \in 1..Len(own) : \A k \in 1..Len(own) : own[j].created_at <= own[k].created_at}}

\* ORDER BY s.updated_at ASC in place of DESC
SessionOrders_ascending ==
    {order \in [1..Cardinality(DOMAIN sessions) -> DOMAIN sessions] :
        /\ \A i, j \in DOMAIN order : i # j => order[i] # order[j]
        /\ \A i, j \in DOMAIN order :
              i < j => sessions[order[i]].updated_at <= sessions[order[j]].updated_at}

\* GROUP BY s.session_id ORDER BY s.updated_at DESC: the orders the rows may
\* come in, one row per session
SessionOrders ==
    {order \in [1..Cardinality(DOMAIN sessions) -> DOMAIN sessions] :
        /\ \A i, j \in DOMAIN order : i # j => order[i] # order[j]
        /\ \A i, j \in DOMAIN order :
              i < j => sessions[order[i]].updated_at >= sessions[order[j]].updated_at}

SessionEntry(sid, first_message) ==
    [session_id |-> sid,
     message_count |-> message_count(sid),
     first_message |-> sessions[sid].created_at,
     last_message |-> sessions[sid].updated_at,
     preview |-> extract_preview_text(first_message)]

list_sessions ==
    /\ \E fails \in BOOLEAN :
          IF ~db_exists \/ fails
            THEN last' = Call("list_sessions", None, <<>>, db_exists)
            ELSE \E order \in SessionOrders :
                 \E first \in [DOMAIN sessions -> SessionBlobs \cup {None}] :
                    /\ \A sid \in DOMAIN sessions : first[sid] \in FirstMessages(sid)
                    /\ last' = Call("list_sessions", None,
                                     [i \in DOMAIN order |->
                                         SessionEntry(order[i], first[order[i]])],
                                     FALSE)
    /\ UNCHANGED <<sideVars, db_exists, sessions, messages, session_id, session, uuid_issued, now,
                   pureVars, runVars, appVars>>

\* bool(session_id) of an optional id
IdTruthy(sid) == sid # None

\* temp_session.get_items(): the stored items of the session, oldest first
get_items(sid) ==
    LET own == MessagesOf(messages, sid) IN [i \in 1..Len(own) |-> own[i].message_data]

\* get_session_history ignoring the id it is given
history_target_current(sid) == session_id

\* session_id or self.session_id
history_target(sid) == IF IdTruthy(sid) THEN sid ELSE session_id

get_session_history ==
    /\ \E sid \in KnownIds \cup {None}, fails \in BOOLEAN :
          LET target == history_target(sid)
          IN last' = Call("get_session_history", sid,
                           IF ~IdTruthy(target) \/ fails THEN <<>> ELSE get_items(target),
                           IdTruthy(target) /\ fails)
    /\ UNCHANGED <<sideVars, db_exists, sessions, messages, session_id, session, uuid_issued, now,
                   pureVars, runVars, appVars>>

\* DELETE FROM <table>, with no WHERE
ExecDelete_all(db, table, sid) ==
    IF table = "agent_messages"
      THEN [db EXCEPT !.messages = <<>>]
      ELSE [db EXCEPT !.sessions = <<>>]

\* DELETE FROM <table> WHERE session_id = ?
ExecDelete(db, table, sid) ==
    IF table = "agent_messages"
      THEN [db EXCEPT !.messages = SelectSeq(db.messages, LAMBDA m : m.session_id # sid)]
      ELSE [db EXCEPT !.sessions = Without(db.sessions, sid)]

\* a connection that commits each statement as it runs: nothing to roll back
Rollback_autocommit(before, work) == work

\* "with conn:" leaving by an exception: the transaction is rolled back
Rollback(before, work) == before

\* where the sqlite calls of delete_session may raise
DeleteFailures == {"none", "connect", "agent_messages", "agent_sessions", "commit"}

\* the try block of delete_session up to the end of "with conn:": the store
\* afterwards, and whether the block was left without an exception
delete_rows(db, sid, failure) ==
    LET afterMessages == ExecDelete(db, "agent_messages", sid)
        afterSessions == ExecDelete(afterMessages, "agent_sessions", sid)
    IN CASE failure = "connect" -> [ok |-> FALSE, db |-> db]
         [] failure = "agent_messages" -> [ok |-> FALSE, db |-> Rollback(db, db)]
         [] failure = "agent_sessions" -> [ok |-> FALSE, db |-> Rollback(db, afterMessages)]
         [] failure = "commit" -> [ok |-> FALSE, db |-> Rollback(db, afterSessions)]
         [] OTHER -> [ok |-> TRUE, db |-> afterSessions]

delete_session ==
    /\ \E sid \in KnownIds, failure \in DeleteFailures :
          LET done == IF db_exists
                        THEN delete_rows([sessions |-> sessions, messages |-> messages],
                                         sid, failure)
                        ELSE [ok |-> FALSE, db |-> [sessions |-> sessions, messages |-> messages]]
          IN /\ db_exists \/ failure = "none"
             /\ sessions' = done.db.sessions
             /\ messages' = done.db.messages
             /\ IF done.ok /\ sid = session_id
                  THEN uuid_issued < MaxUuid /\ ResetBinding
                  ELSE UNCHANGED <<sideVars, session_id, session, uuid_issued>>
             /\ last' = Call("delete_session", sid, done.ok, db_exists /\ failure # "none")
    /\ UNCHANGED <<sideVars, db_exists, now, pureVars, runVars, appVars>>

\* the runtime, given the handle by Runner.run_streamed(..., session=get_session()),
\* stores an item of the run: the session row is made on the first write
runtime_add_items ==
    /\ Len(messages) < MaxMessages
    /\ \E data \in SessionBlobs :
          messages' = Append(messages,
                             [session_id |-> session, message_data |-> data, created_at |-> now])
    /\ sessions' = IF session \in DOMAIN sessions
                     THEN [sessions EXCEPT ![session].updated_at = now]
                     ELSE [sid \in DOMAIN sessions \cup {session} |->
                             IF sid = session THEN [created_at |-> now, updated_at |-> now]
                             ELSE sessions[sid]]
    /\ db_exists' = TRUE
    /\ last' = Call("add_items", session, None, FALSE)
    /\ UNCHANGED <<sideVars, session_id, session, uuid_issued, now, pureVars, runVars, appVars>>

\* CURRENT_TIMESTAMP moves on
Tick ==
    /\ now < MaxTime
    /\ now' = now + 1
    /\ last' = Call("tick", None, None, FALSE)
    /\ UNCHANGED <<sideVars, db_exists, sessions, messages, session_id, session, uuid_issued, pureVars, runVars, appVars>>

\* the stores a run may find: none, an empty one, or one in which another run
\* left a session without messages
InitialStores ==
    {[exists |-> FALSE, sessions |-> <<>>], [exists |-> TRUE, sessions |-> <<>>]}
    \cup {[exists |-> TRUE, sessions |-> [sid \in {ext} |-> [created_at |-> 0, updated_at |-> 0]]] :
            ext \in ExternalIds}

\* SessionManager.__init__: no id, no handle, then reset_session()
InitSession ==
    /\ SideIdle
    /\ \E store \in InitialStores : db_exists = store.exists /\ sessions = store.sessions
    /\ messages = <<>>
    /\ uuid_issued = 1
    /\ session_id = Uuid(1)
    /\ session = session_from_id(Uuid(1))
    /\ now = 0
    /\ last = Call("init", None, None, FALSE)
    /\ input = None
    /\ output = NoCall
    /\ RunIdle
    /\ AppIdle

NextSession ==
    \/ reset_session
    \/ load_session
    \/ get_session_id
    \/ list_sessions
    \/ get_session_history
    \/ delete_session
    \/ runtime_add_items
    \/ Tick

SpecSession == InitSession /\ [][NextSession]_vars

----------------------------------------------------------------------------
(* The event classifier (agent/events.py).  A Python object is a function  *)
(* from the names of the attributes it has to their values, with its class *)
(* under "cls": an attribute the object lacks is outside the domain.  A    *)
(* generator is the sequence of what it yields.                            *)

Object(cls) == [cls |-> cls]
NoneObject == Object("NoneType")

\* getattr(obj, name, default)
getattr(obj, name, default) == IF name \in DOMAIN obj THEN obj[name] ELSE default

isinstance(obj, cls) == obj.cls = cls

Unknown == <<"u", "n", "k", "n", "o", "w", "n">>

\* the variant whose deltas are not tested for emptiness
raw_event_payloads_keeps_empty(data) ==
    IF isinstance(data, "ResponseReasoningTextDeltaEvent")
    THEN <<[type |-> "reasoning_delta", content |-> data.delta]>>
    ELSE IF isinstance(data, "ResponseTextDeltaEvent")
         THEN <<[type |-> "text_delta", content |-> data.delta]>>
         ELSE <<>>

raw_event_payloads(data) ==
    IF isinstance(data, "ResponseReasoningTextDeltaEvent") /\ data.delta # <<>>
    THEN <<[type |-> "reasoning_delta", content |-> data.delta]>>
    ELSE IF isinstance(data, "ResponseTextDeltaEvent") /\ data.delta # <<>>
         THEN <<[type |-> "text_delta", content |-> data.delta]>>
         ELSE <<>>

item_event_payloads(item) ==
    LET item_type == getattr(item, "type", "")
    IN  IF item_type = "tool_call_item"
        THEN <<[type |-> "tool_call", name |-> getattr(item, "name", Unknown)]>>
        ELSE IF item_type = "tool_call_output_item"
        THEN <<[type |-> "tool_output",
                output |-> PyStr(getattr(item, "output", JStr(<<>>)))]>>
        ELSE IF item_type = "reasoning"
        THEN LET summary == getattr(item, "summary", <<>>)
             IN  IF summary # <<>>
                 THEN <<[type |-> "reasoning_summary", content |-> summary]>>
                 ELSE <<>>
        ELSE <<>>

event_payloads(event) ==
    LET event_type == getattr(event, "type", "")
    IN  IF event_type = "raw_response_event"
        THEN raw_event_payloads(getattr(event, "data", NoneObject))
        ELSE IF event_type = "run_item_stream_event"
        THEN item_event_payloads(getattr(event, "item", NoneObject))
        ELSE IF event_type = "agent_updated_stream_event"
        THEN LET agent_name == getattr(getattr(event, "new_agent", NoneObject),
                                       "name", Unknown)
             IN  <<[type |-> "agent_update", name |-> agent_name]>>
        ELSE <<>>

(* The events the runtime may hand to the classifier: every category tag,  *)
(* one the classifier does not know and no tag at all, each with and       *)
(* without the attribute its branch reads.                                 *)

\* the objects of objs, and each of them with attribute attr set to a value of V
WithAttr(objs, attr, V) == objs \cup {(attr :> v) @@ o : o \in objs, v \in V}

DeltaTexts == {<<>>, <<"a">>}

DeltaClasses ==
    {"ResponseReasoningTextDeltaEvent", "ResponseTextDeltaEvent", "ResponseAudioDeltaEvent"}

RawData ==
    {NoneObject, Object("ResponseCreatedEvent")}
    \cup {("delta" :> d) @@ Object(c) : c \in DeltaClasses, d \in DeltaTexts}

ItemTypes == {"tool_call_item", "tool_call_output_item", "reasoning", "message_output_item"}

ToolOutputs == {JStr(<<>>), JStr(<<"a">>), JInt(42), None}

RunItems ==
    {NoneObject}
    \cup WithAttr(WithAttr(WithAttr(WithAttr({Object("RunItem")},
                                             "type", ItemTypes),
                                    "name", {<<"t">>}),
                           "output", ToolOutputs),
                  "summary", {<<>>, <<"s">>})

Agents == {NoneObject} \cup WithAttr({Object("Agent")}, "name", {<<"a">>})

EventTypes ==
    {"raw_response_event", "run_item_stream_event", "agent_updated_stream_event",
     "future_stream_event"}

StreamEvents ==
    LET tagged == WithAttr({Object("StreamEvent")}, "type", EventTypes)
    IN  WithAttr(tagged, "data", RawData)
        \cup WithAttr(tagged, "item", RunItems)
        \cup WithAttr(tagged, "new_agent", Agents)

InitEvents ==
    /\ SideIdle
    /\ SessIdle
    /\ RunIdle
    /\ AppIdle
    /\ input \in StreamEvents
    /\ output = NoCall

ApplyEventPayloads ==
    /\ output' = [fn |-> "event_payloads", arg |-> input, ret |-> event_payloads(input)]
    /\ UNCHANGED <<sideVars, input, sessVars, runVars, appVars>>

NextEvents == ApplyEventPayloads

SpecEvents == InitEvents /\ [][NextEvents]_vars

----------------------------------------------------------------------------
(* The streamed runner (agent/runner.py) over an AgentManager              *)
(* (agent/agent_manager.py).  The outcome of a call is Ok(value) or        *)
(* Raise(class): an exception is known by the qualified name of its class. *)
(* A str the model knows by name (a model tag, an effort level, a path) is *)
(* Named(name).  A function that reads or fills the capability cache or    *)
(* the manager takes them as arguments and returns them beside its         *)
(* outcome.                                                                *)

\* the longest event stream the runtime produces
MaxStream == 1

\* Body applied to the value of an expression that is evaluated once: the
\* assignment `name = expression` followed by the statements that read name
Bind(value, Body(_)) == CHOOSE result \in {Body(bound) : bound \in {value}} : TRUE

Ok(v) == [ok |-> TRUE, value |-> v]
Raise(cls) == [ok |-> FALSE, exc |-> cls]

Named(name) == <<"name", name>>

\* bool(value) of an optional str
Truthy(value) == value # None /\ value # Named("")

\* the expression `a or b`
Or(a, b) == IF Truthy(a) THEN a ELSE b

\* utils.py and exceptions.py each define a class ModelCapabilityError
UtilsModelCapabilityError == "ollama_agent.utils.ModelCapabilityError"
ExceptionsModelCapabilityError == "ollama_agent.exceptions.ModelCapabilityError"

\* the classes that an exception of class cls is an instance of
Mro(cls) ==
    {cls, "Exception"}
    \cup (IF cls \in {UtilsModelCapabilityError, ExceptionsModelCapabilityError}
          THEN {"RuntimeError"} ELSE {})

\* whether `except handler` catches an exception of class cls
Catches(handler, cls) == handler \in Mro(cls)

(* The Ollama server: the models it has, and what ollama.show reports.     *)
InstalledModels == {Named("tools_model"), Named("plain_model")}
ModelNames == InstalledModels \cup {Named("missing_model")}

Capabilities(model) ==
    IF model = Named("tools_model") THEN {"completion", "tools"} ELSE {"completion"}

ollama_show(model, reachable) ==
    IF reachable /\ model \in InstalledModels
    THEN Ok(Capabilities(model))
    ELSE Raise("ollama.ResponseError")

Miss == <<"miss">>
Hit(capabilities) == <<"hit", capabilities>>

\* @lru_cache: a result is remembered, an exception is not
capabilities_for_model(cache, model, reachable) ==
    IF cache[model] # Miss
    THEN [out |-> Ok(cache[model][2]), cache |-> cache]
    ELSE Bind(ollama_show(model, reachable), LAMBDA response :
             IF ~response.ok
             THEN [out |-> Raise(UtilsModelCapabilityError), cache |-> cache]
             ELSE [out |-> Ok(response.value),
                   cache |-> [cache EXCEPT ![model] = Hit(response.value)]])

model_supports_tools(cache, model, reachable) ==
    Bind(capabilities_for_model(cache, model, reachable), LAMBDA capabilities :
        IF capabilities.out.ok
        THEN [out |-> Ok("tools" \in capabilities.out.value), cache |-> capabilities.cache]
        ELSE capabilities)

ensure_model_supports_tools(cache, model, reachable) ==
    Bind(model_supports_tools(cache, model, reachable), LAMBDA supports :
        IF ~supports.out.ok
        THEN supports
        ELSE IF ~supports.out.value
             THEN [out |-> Raise(UtilsModelCapabilityError), cache |-> supports.cache]
             ELSE [out |-> Ok(None), cache |-> supports.cache])

ALLOWED_REASONING_EFFORTS ==
    <<Named("low"), Named("medium"), Named("high"), Named("disabled")>>
DEFAULT_REASONING_EFFORT == Named("medium")

validate_reasoning_effort(effort) ==
    IF effort \in Range(ALLOWED_REASONING_EFFORTS) THEN effort ELSE DEFAULT_REASONING_EFFORT

(* The MCP configuration file: a JSON object whose "mcpServers" maps each  *)
(* server to a configuration with a supported transport and an agent model.*)
MCPConfigPath == Named("mcp_servers.json")

McpServersPayload ==
    <<[name |-> "files", model |-> Named("tools_model")],
      [name |-> "search", model |-> Named("plain_model")],
      [name |-> "notes", model |-> None]>>

\* _build_mcp_agent: the agent of a connected server, or None
build_mcp_agent(config, default_model, cache, reachable) ==
    LET model == Or(config.model, default_model)
    IN  IF ~Truthy(model)
        THEN [out |-> None, cache |-> cache]
        ELSE Bind(ensure_model_supports_tools(cache, model, reachable), LAMBDA ensured :
                 IF ~ensured.out.ok
                 THEN [out |-> None, cache |-> ensured.cache]
                 ELSE [out |-> <<"agent", [name |-> config.name, model |-> model]>>,
                       cache |-> ensured.cache])

\* the loop of initialize_mcp_servers over the configured servers from index i:
\* a server that does not connect, or has no agent, is skipped
RECURSIVE running_servers(_, _, _, _, _)
running_servers(i, connects, running, cache, reachable) ==
    IF i > Len(McpServersPayload)
    THEN [servers |-> running, cache |-> cache]
    ELSE IF ~connects[i]
    THEN running_servers(i + 1, connects, running, cache, reachable)
    ELSE Bind(build_mcp_agent(McpServersPayload[i], None, cache, reachable), LAMBDA bundle :
             IF bundle.out = None
             THEN running_servers(i + 1, connects, running, bundle.cache, reachable)
             ELSE running_servers(i + 1, connects, Append(running, bundle.out[2]),
                                  bundle.cache, reachable))

\* env: whether the file exists, which servers connect, whether Ollama answers
initialize_mcp_servers(config_path, cache, env) ==
    IF ~env.config_exists
    THEN [servers |-> <<>>, cache |-> cache]
    ELSE running_servers(1, env.connects, <<>>, cache, env.reachable)

Environments ==
    [config_exists : BOOLEAN, connects : [1..Len(McpServersPayload) -> BOOLEAN],
     reachable : BOOLEAN]

(* AgentManager.  The manager is the record of its fields; its agent cache *)
(* is the set of <<cache_key, agent>> pairs.                               *)

build_model_settings(manager, effort) ==
    LET active_effort == Or(effort, manager.reasoning_effort)
    IN  IF active_effort = Named("disabled")
        THEN None
        ELSE <<"ModelSettings", active_effort>>

\* the names bound where _create_agent runs: its locals and the globals of
\* agent_manager.py
NamesInScope ==
    {"self", "model", "reasoning_effort", "selected_model", "selected_effort", "cache_key",
     "logging", "dataclass", "field", "Path", "Any", "Optional", "cast", "Agent",
     "ModelSettings", "Reasoning", "RunningMCPServer", "cleanup_mcp_servers",
     "initialize_mcp_servers", "ReasoningEffortValue", "ensure_model_supports_tools",
     "validate_reasoning_effort", "execute_command", "logger", "AgentManager"}

\* _create_agent: the cache lookup reads the name self_agent_cache, which is
\* bound nowhere, so that the call raises NameError once the model has passed
\* the capability check
create_agent(manager, cache, model, reasoning_effort, reachable) ==
    LET selected_model == Or(model, manager.model)
        selected_effort == Or(reasoning_effort, manager.reasoning_effort)
        cache_key == <<selected_model, selected_effort>>
        agent == [cls |-> "Agent",
                  name |-> "Ollama Assistant",
                  model |-> selected_model,
                  mcp_servers |-> manager.mcp_servers,
                  model_settings |-> build_model_settings(manager, selected_effort)]
    IN  Bind(ensure_model_supports_tools(cache, selected_model, reachable), LAMBDA ensured :
        IF ~ensured.out.ok
        THEN [out |-> ensured.out, manager |-> manager, cache |-> ensured.cache]
        ELSE IF "self_agent_cache" \notin NamesInScope
        THEN [out |-> Raise("NameError"), manager |-> manager, cache |-> ensured.cache]
        ELSE IF \E entry \in manager.agent_cache : entry[1] = cache_key
        THEN [out |-> Ok((CHOOSE entry \in manager.agent_cache : entry[1] = cache_key)[2]),
              manager |-> manager, cache |-> ensured.cache]
        ELSE [out |-> Ok(agent),
              manager |-> [manager EXCEPT !.agent_cache = @ \cup {<<cache_key, agent>>}],
              cache |-> ensured.cache])

ensure_mcp_servers_initialized(manager, cache, env) ==
    IF manager.mcp_servers = <<>> /\ Truthy(manager.mcp_config_path)
    THEN Bind(initialize_mcp_servers(manager.mcp_config_path, cache, env), LAMBDA initialized :
             [manager |-> [manager EXCEPT
                               !.mcp_servers = initialized.servers,
                               !.agent_cache = IF initialized.servers # <<>> THEN {} ELSE @],
              cache |-> initialized.cache])
    ELSE [manager |-> manager, cache |-> cache]

get_agent(manager, cache, model, reasoning_effort, env) ==
    Bind(ensure_mcp_servers_initialized(manager, cache, env), LAMBDA ready :
        LET selected_model == Or(model, ready.manager.model)
            effort == IF Truthy(reasoning_effort)
                      THEN validate_reasoning_effort(reasoning_effort)
                      ELSE ready.manager.reasoning_effort
        IN  create_agent(ready.manager, ready.cache, selected_model, effort, env.reachable))

\* AgentManager.cleanup: shutdown() of a server does not raise
cleanup ==
    /\ agent_manager' = IF agent_manager.mcp_servers # <<>>
                        THEN [agent_manager EXCEPT !.mcp_servers = <<>>]
                        ELSE agent_manager
    /\ UNCHANGED <<sideVars, capabilities_cache, stream, sessVars, pureVars, appVars>>

(* run_async_streamed, run to the end by its consumer: the events the      *)
(* consumer received, and the exception that reached it.                   *)

ErrorEvent(exc) == [type |-> "error", content |-> exc]

NoRun == [called |-> FALSE]

Run(model, reasoning_effort, events, raised, failure) ==
    [called |-> TRUE, model |-> model, reasoning_effort |-> reasoning_effort,
     events |-> events, raised |-> raised, failure |-> failure]

\* the payloads of the events of a stream, in order
RECURSIVE Payloads(_)
Payloads(events) ==
    IF events = <<>> THEN <<>> ELSE event_payloads(Head(events)) \o Payloads(Tail(events))

SampleEvents ==
    {("data" :> (("delta" :> d) @@ Object("ResponseTextDeltaEvent")))
        @@ [cls |-> "StreamEvent", type |-> "raw_response_event"] : d \in DeltaTexts}
    \cup {[cls |-> "StreamEvent", type |-> "run_item_stream_event",
           item |-> [cls |-> "RunItem", type |-> "tool_call_item"]],
          [cls |-> "StreamEvent", type |-> "future_stream_event"]}

\* what the runtime streams before it ends or fails
RuntimeStreams == SeqsUpTo(SampleEvents, MaxStream)

ModelArgs == {None, Named("")} \cup ModelNames
EffortArgs == {None, Named("low"), Named("disabled"), Named("extreme")}

run_async_streamed ==
    /\ \E model \in ModelArgs, reasoning_effort \in EffortArgs, env \in Environments :
          \E got \in {get_agent(agent_manager, capabilities_cache, model, reasoning_effort, env)} :
              /\ agent_manager' = got.manager
              /\ capabilities_cache' = got.cache
              /\ IF ~got.out.ok /\ Catches(ExceptionsModelCapabilityError, got.out.exc)
                 THEN stream' = Run(model, reasoning_effort, <<ErrorEvent(got.out.exc)>>,
                                    "none", "get_agent")
                 ELSE IF ~got.out.ok
                 THEN stream' = Run(model, reasoning_effort, <<>>, got.out.exc, "get_agent")
                 ELSE \E events \in RuntimeStreams, fails \in BOOLEAN :
                         stream' = Run(model, reasoning_effort,
                                       Payloads(events)
                                           \o (IF fails THEN <<ErrorEvent("RuntimeError")>>
                                               ELSE <<>>),
                                       "none", IF fails THEN "stream" ELSE "none")
    /\ UNCHANGED <<sideVars, sessVars, pureVars, appVars>>

\* AgentManager(model, mcp_config_path=...): no server runs, nothing is cached
InitRunner ==
    /\ SideIdle
    /\ SessIdle
    /\ AppIdle
    /\ input = None
    /\ output = NoCall
    /\ \E model \in ModelNames, mcp_config_path \in {None, MCPConfigPath} :
          agent_manager = [model |-> model,
                           reasoning_effort |-> Named("medium"),
                           mcp_config_path |-> mcp_config_path,
                           mcp_servers |-> <<>>,
                           agent_cache |-> {}]
    /\ capabilities_cache = [model \in ModelNames |-> Miss]
    /\ stream = NoRun

NextRunner == run_async_streamed \/ cleanup

SpecRunner == InitRunner /\ [][NextRunner]_vars

----------------------------------------------------------------------------
(* OllamaAgent (agent/agent.py): the agent object the console and the TUI  *)
(* run.  It is the record of its fields; its agent cache is the set of     *)
(* <<cache_key, agent>> pairs.  agent.py takes ModelCapabilityError from   *)
(* utils.py, the class that ensure_model_supports_tools raises.            *)

NewAgent(self, selected_model, selected_effort) ==
    [cls |-> "Agent",
     name |-> "Ollama Assistant",
     model |-> selected_model,
     mcp_servers |-> self.mcp_servers,
     model_settings |-> build_model_settings(self, selected_effort)]

\* the variant that builds the agent without the capability check
OllamaAgent_create_agent_unchecked(self, cache, model, reasoning_effort, reachable) ==
    LET selected_model == Or(model, self.model)
        selected_effort == Or(reasoning_effort, self.reasoning_effort)
    IN  [out |-> Ok(NewAgent(self, selected_model, selected_effort)),
         self |-> self, cache |-> cache]

\* OllamaAgent._create_agent
OllamaAgent_create_agent(self, cache, model, reasoning_effort, reachable) ==
    LET selected_model == Or(model, self.model)
        selected_effort == Or(reasoning_effort, self.reasoning_effort)
        cache_key == <<selected_model, selected_effort>>
        agent == NewAgent(self, selected_model, selected_effort)
    IN  Bind(ensure_model_supports_tools(cache, selected_model, reachable), LAMBDA ensured :
        IF ~ensured.out.ok
        THEN [out |-> ensured.out, self |-> self, cache |-> ensured.cache]
        ELSE IF \E entry \in self.agent_cache : entry[1] = cache_key
        THEN [out |-> Ok((CHOOSE entry \in self.agent_cache : entry[1] = cache_key)[2]),
              self |-> self, cache |-> ensured.cache]
        ELSE [out |-> Ok(agent),
              self |-> [self EXCEPT !.agent_cache = @ \cup {<<cache_key, agent>>}],
              cache |-> ensured.cache])

\* OllamaAgent._ensure_mcp_servers_initialized: with servers running, the cache
\* is emptied and the default agent is built again
OllamaAgent_ensure_mcp_servers_initialized(self, cache, env) ==
    IF self.mcp_servers = <<>> /\ Truthy(self.mcp_config_path)
    THEN Bind(initialize_mcp_servers(self.mcp_config_path, cache, env), LAMBDA initialized :
             IF initialized.servers = <<>>
             THEN [out |-> Ok(None), self |-> self, cache |-> initialized.cache]
             ELSE Bind(OllamaAgent_create_agent(
                           [self EXCEPT !.mcp_servers = initialized.servers,
                                        !.agent_cache = {}],
                           initialized.cache, None, None, env.reachable),
                       LAMBDA created :
                           IF created.out.ok
                           THEN [out |-> Ok(None),
                                 self |-> [created.self EXCEPT !.agent = created.out.value],
                                 cache |-> created.cache]
                           ELSE created))
    ELSE [out |-> Ok(None), self |-> self, cache |-> cache]

\* OllamaAgent._get_agent
OllamaAgent_get_agent(self, cache, model, reasoning_effort, env) ==
    Bind(OllamaAgent_ensure_mcp_servers_initialized(self, cache, env), LAMBDA ready :
        IF ~ready.out.ok
        THEN ready
        ELSE IF ~Truthy(model) /\ ~Truthy(reasoning_effort)
        THEN [out |-> Ok(ready.self.agent), self |-> ready.self, cache |-> ready.cache]
        ELSE LET selected_model == Or(model, ready.self.model)
                 effort == IF Truthy(reasoning_effort)
                           THEN validate_reasoning_effort(reasoning_effort)
                           ELSE ready.self.reasoning_effort
             IN  OllamaAgent_create_agent(ready.self, ready.cache, selected_model, effort,
                                          env.reachable))

\* OllamaAgent.cleanup
OllamaAgent_cleanup ==
    /\ ollama_agent' = IF ollama_agent.mcp_servers # <<>>
                       THEN [ollama_agent EXCEPT !.mcp_servers = <<>>]
                       ELSE ollama_agent
    /\ UNCHANGED <<sideVars, agent_manager, capabilities_cache, stream, sessVars, pureVars, renderer, turn,
                   taskVars>>

\* the environments that differ in what a call of _get_agent reads: the file
\* and the servers are read only while no server runs and a path is configured
EnvironmentsFor(self) ==
    IF self.mcp_servers = <<>> /\ Truthy(self.mcp_config_path)
    THEN Environments
    ELSE {env \in Environments :
            ~env.config_exists /\ \A i \in DOMAIN env.connects : ~env.connects[i]}

\* a run of OllamaAgent.run_async_streamed: beside what the consumer received,
\* whether Runner.run_streamed was called with the prompt, and the rows of the
\* session store when the run began
AgentRun(model, reasoning_effort, events, raised, failure, started) ==
    [called |-> TRUE, model |-> model, reasoning_effort |-> reasoning_effort,
     events |-> events, raised |-> raised, failure |-> failure, started |-> started,
     before |-> [sessions |-> sessions, messages |-> messages]]

\* Runner.run_streamed(agent, input=prompt, session=get_session()): the prompt
\* goes to the model, and the runtime stores it under the current session
Runner_run_streamed ==
    /\ Len(messages) < MaxMessages
    /\ messages' = Append(messages,
                          [session_id |-> session, message_data |-> JsonBlob(JStr(<<"a">>)),
                           created_at |-> now])
    /\ sessions' = IF session \in DOMAIN sessions
                     THEN [sessions EXCEPT ![session].updated_at = now]
                     ELSE [sid \in DOMAIN sessions \cup {session} |->
                             IF sid = session THEN [created_at |-> now, updated_at |-> now]
                             ELSE sessions[sid]]
    /\ db_exists' = TRUE

\* OllamaAgent.run_async_streamed, run to the end by its consumer
OllamaAgent_run_async_streamed ==
    /\ \E model \in ModelArgs, reasoning_effort \in EffortArgs,
          env \in EnvironmentsFor(ollama_agent) :
          \E got \in {OllamaAgent_get_agent(ollama_agent, capabilities_cache, model,
                                            reasoning_effort, env)} :
              /\ ollama_agent' = got.self
              /\ capabilities_cache' = got.cache
              /\ IF ~got.out.ok /\ Catches(UtilsModelCapabilityError, got.out.exc)
                 THEN /\ stream' = AgentRun(model, reasoning_effort,
                                            <<ErrorEvent(got.out.exc)>>, "none", "get_agent",
                                            FALSE)
                      /\ UNCHANGED <<sideVars, db_exists, sessions, messages>>
                 ELSE IF ~got.out.ok
                 THEN /\ stream' = AgentRun(model, reasoning_effort, <<>>, got.out.exc,
                                            "get_agent", FALSE)
                      /\ UNCHANGED <<sideVars, db_exists, sessions, messages>>
                 ELSE /\ Runner_run_streamed
                      /\ \E events \in RuntimeStreams, fails \in BOOLEAN :
                            stream' = AgentRun(model, reasoning_effort,
                                               Payloads(events)
                                                   \o (IF fails
                                                       THEN <<ErrorEvent("RuntimeError")>>
                                                       ELSE <<>>),
                                               "none", IF fails THEN "stream" ELSE "none",
                                               TRUE)
    /\ UNCHANGED <<sideVars, session_id, session, uuid_issued, now, last, agent_manager, pureVars,
                   renderer, turn, taskVars>>

\* OllamaAgent(model, mcp_config_path=...) after __post_init__: the default
\* model passed the capability check, its agent is built and cached
InitAgent ==
    /\ SideIdle
    /\ SessIdle
    /\ TasksIdle
    /\ renderer = None
    /\ turn = None
    /\ input = None
    /\ output = NoCall
    /\ agent_manager = None
    /\ stream = NoRun
    /\ capabilities_cache \in [ModelNames -> {Miss} \cup {Hit(Capabilities(m)) : m \in InstalledModels}]
    /\ \A m \in ModelNames :
          capabilities_cache[m] # Miss => m \in InstalledModels /\ capabilities_cache[m] = Hit(Capabilities(m))
    /\ \E model \in ModelNames, mcp_config_path \in {None, MCPConfigPath} :
          /\ capabilities_cache[model] # Miss
          /\ "tools" \in capabilities_cache[model][2]
          /\ LET self == [model |-> model,
                          reasoning_effort |-> validate_reasoning_effort(Named("medium")),
                          mcp_config_path |-> mcp_config_path,
                          mcp_servers |-> <<>>,
                          agent_cache |-> {},
                          agent |-> None]
                 agent == NewAgent(self, model, self.reasoning_effort)
             IN  ollama_agent = [self EXCEPT
                                    !.agent = agent,
                                    !.agent_cache = {<<<<model, self.reasoning_effort>>, agent>>}]

NextAgent == OllamaAgent_run_async_streamed \/ OllamaAgent_cleanup

SpecAgent == InitAgent /\ [][NextAgent]_vars

(***************************************************************************)
(* The renderers of a streamed turn: _StreamingConsole behind              *)
(* stream_agent_events (cli.py, streaming.py), the loop of                 *)
(* run_non_interactive in main.py, and the two renderers of the TUI        *)
(* (tui/renderers.py) driven by _stream_agent_response (tui/app.py).       *)
(*                                                                         *)
(* What a renderer writes is kept as a sequence of entries                 *)
(* [op, what, content]: the calls of console.print, of the Live region     *)
(* (start, update, stop) and, in the TUI, the lines of the chat log.  A    *)
(* str is a sequence of characters, so that joining is concatenation.      *)
(***************************************************************************)
MaxEvents == 4

\* the cut of a tool output in the terminal renderers
ToolPreviewLimit == 100

Out(op, what, content) == [op |-> op, what |-> what, content |-> content]

\* dict.get(key, default) of an event payload
get(event, key, default) == IF key \in DOMAIN event THEN event[key] ELSE default

\* f"{output[:100]}..." if len(output) > 100 else output
output_preview(tool_output) ==
    IF Len(tool_output) > ToolPreviewLimit
    THEN Take(tool_output, ToolPreviewLimit) \o <<".", ".", ".">>
    ELSE tool_output

\* console.print and the rich Live region of a terminal renderer: `live` is
\* the state of the region itself, beside the renderer's own flag
console_print(self, what, content) ==
    [self EXCEPT !.console = Append(@, Out("print", what, content))]

live_start(self) ==
    [self EXCEPT !.console = Append(@, Out("live", "start", <<>>)), !.live = "started"]

live_stop(self) ==
    [self EXCEPT !.console = Append(@, Out("live", "stop", <<>>)), !.live = "stopped"]

live_update(self, markdown) ==
    [self EXCEPT !.console = Append(@, Out("live", "update", markdown))]

(* ---- cli.py: _StreamingConsole ---- *)

\* _StreamingConsole.__init__
StreamingConsole ==
    [console |-> <<>>, live |-> "stopped", text |-> <<>>,
     agent_banner_shown |-> FALSE, reasoning |-> FALSE, live_active |-> FALSE]

StreamingConsole_start_live(self) ==
    IF ~self.live_active THEN [live_start(self) EXCEPT !.live_active = TRUE] ELSE self

StreamingConsole_stop_live(self) ==
    IF self.live_active THEN [live_stop(self) EXCEPT !.live_active = FALSE] ELSE self

\* the variant that prints the banner without remembering it
StreamingConsole_ensure_agent_banner_again(self) ==
    IF ~self.agent_banner_shown
    THEN console_print(self, "agent_banner", <<>>)
    ELSE self

StreamingConsole_ensure_agent_banner(self) ==
    IF ~self.agent_banner_shown
    THEN [console_print(self, "agent_banner", <<>>) EXCEPT !.agent_banner_shown = TRUE]
    ELSE self

StreamingConsole_conclude_reasoning(self) ==
    IF self.reasoning
    THEN console_print([self EXCEPT !.reasoning = FALSE], "newline", <<>>)
    ELSE self

StreamingConsole_on_text_delta(self, event) ==
    LET ready == StreamingConsole_start_live(
                     StreamingConsole_ensure_agent_banner(
                         StreamingConsole_conclude_reasoning(self)))
        text == Append(ready.text, get(event, "content", <<>>))
    IN  live_update([ready EXCEPT !.text = text], PyJoin(<<>>, text))

\* the variant that starts the Live region without looking at the reasoning block
StreamingConsole_on_reasoning_delta_keeps_live(self, event) ==
    console_print(IF ~self.reasoning
                  THEN [console_print(self, "thinking_header", <<>>)
                            EXCEPT !.reasoning = TRUE]
                  ELSE self,
                  "reasoning", get(event, "content", <<>>))

StreamingConsole_on_reasoning_delta(self, event) ==
    console_print(IF ~self.reasoning
                  THEN [console_print(StreamingConsole_stop_live(self), "thinking_header", <<>>)
                            EXCEPT !.reasoning = TRUE]
                  ELSE self,
                  "reasoning", get(event, "content", <<>>))

\* the variant that leaves the reasoning block open across a tool call
StreamingConsole_on_tool_call_keeps_reasoning(self, event) ==
    console_print(StreamingConsole_stop_live(self),
                  "tool_call", get(event, "name", <<"unknown">>))

StreamingConsole_on_tool_call(self, event) ==
    console_print(StreamingConsole_stop_live(StreamingConsole_conclude_reasoning(self)),
                  "tool_call", get(event, "name", <<"unknown">>))

StreamingConsole_on_tool_output(self, event) ==
    console_print(StreamingConsole_stop_live(self),
                  "tool_output", output_preview(get(event, "output", <<>>)))

StreamingConsole_on_error(self, event) ==
    console_print(StreamingConsole_stop_live(self),
                  "error", get(event, "content", <<"Unknown error">>))

StreamingConsole_close(self) ==
    console_print(StreamingConsole_stop_live(self), "newline", <<>>)

\* _StreamingConsole.handlers(): the event types that have a handler, and the
\* call of the handler of an event's type
StreamingConsole_handlers == {"text_delta", "reasoning_delta", "tool_call", "tool_output"}

StreamingConsole_handle(self, event) ==
    CASE event.type = "text_delta" -> StreamingConsole_on_text_delta(self, event)
      [] event.type = "reasoning_delta" -> StreamingConsole_on_reasoning_delta(self, event)
      [] event.type = "tool_call" -> StreamingConsole_on_tool_call(self, event)
      [] event.type = "tool_output" -> StreamingConsole_on_tool_output(self, event)

(* ---- streaming.py: stream_agent_events ---- *)

\* the variant whose loop goes on after an error event
stream_agent_events_pass_continues(self, event, on_error, ignore) ==
    IF event.type = "error"
    THEN [self |-> IF on_error THEN StreamingConsole_on_error(self, event) ELSE self,
          called |-> on_error, break |-> FALSE]
    ELSE IF event.type \in ignore \/ event.type \notin StreamingConsole_handlers
    THEN [self |-> self, called |-> FALSE, break |-> FALSE]
    ELSE [self |-> StreamingConsole_handle(self, event), called |-> TRUE, break |-> FALSE]

\* one pass of the loop of stream_agent_events over the handlers of a
\* _StreamingConsole: the renderer after it, whether a callback was called with
\* the event, and whether the loop broke.  on_error is whether the callback
\* was given.  Every payload carries a str under "type" (agent/events.py).
stream_agent_events_pass(self, event, on_error, ignore) ==
    IF event.type = "error"
    THEN [self |-> IF on_error THEN StreamingConsole_on_error(self, event) ELSE self,
          called |-> on_error, break |-> TRUE]
    ELSE IF event.type \in ignore \/ event.type \notin StreamingConsole_handlers
    THEN [self |-> self, called |-> FALSE, break |-> FALSE]
    ELSE [self |-> StreamingConsole_handle(self, event), called |-> TRUE, break |-> FALSE]

(* ---- main.py: the locals of run_non_interactive ---- *)

MainLocals ==
    [console |-> <<>>, live |-> "stopped", text_buffer |-> <<>>, reasoning_buffer |-> <<>>,
     reasoning_active |-> FALSE, live_active |-> FALSE,
     shown_thinking_header |-> FALSE, shown_agent_header |-> FALSE]

\* `if live_active: live.stop(); live_active = False`
Main_stop_live(self) ==
    IF self.live_active THEN [live_stop(self) EXCEPT !.live_active = FALSE] ELSE self

\* one pass of the loop of run_non_interactive in main.py
Main_run_non_interactive_pass(self, event) ==
    CASE event.type = "text_delta" ->
            LET flushed == IF self.reasoning_active
                           THEN [console_print(self, "newline", <<>>) EXCEPT
                                    !.reasoning_active = FALSE,
                                    !.shown_thinking_header = FALSE,
                                    !.reasoning_buffer = <<>>]
                           ELSE self
                headed == IF ~flushed.shown_agent_header
                          THEN [console_print(flushed, "agent_banner", <<>>) EXCEPT
                                   !.shown_agent_header = TRUE]
                          ELSE flushed
                live == IF ~headed.live_active
                        THEN [live_start(headed) EXCEPT !.live_active = TRUE]
                        ELSE headed
                text_buffer == live.text_buffer \o event.content
            IN  [self |-> live_update([live EXCEPT !.text_buffer = text_buffer], text_buffer),
                 break |-> FALSE]
      [] event.type = "reasoning_delta" ->
            LET opened == IF ~self.shown_thinking_header
                          THEN [console_print(Main_stop_live(self), "thinking_header", <<>>)
                                   EXCEPT !.shown_thinking_header = TRUE,
                                          !.reasoning_active = TRUE]
                          ELSE self
            IN  [self |-> console_print([opened EXCEPT !.reasoning_buffer = @ \o event.content],
                                        "reasoning", event.content),
                 break |-> FALSE]
      [] event.type = "tool_call" ->
            LET closed == IF self.reasoning_active
                          THEN [console_print(self, "newline", <<>>) EXCEPT
                                   !.reasoning_active = FALSE,
                                   !.shown_thinking_header = FALSE]
                          ELSE self
            IN  [self |-> console_print(Main_stop_live(closed), "tool_call", event.name),
                 break |-> FALSE]
      [] event.type = "tool_output" ->
            [self |-> console_print(Main_stop_live(self), "tool_output",
                                    output_preview(event.output)),
             break |-> FALSE]
      [] event.type = "error" ->
            [self |-> console_print(Main_stop_live(self), "error", event.content),
             break |-> TRUE]
      [] OTHER -> [self |-> self, break |-> FALSE]

\* the statements after the loop of run_non_interactive in main.py: they stand
\* inside the try, and are reached when the loop ends or breaks
Main_run_non_interactive_after_loop(self) ==
    console_print(IF self.live_active THEN live_stop(self) ELSE self, "newline", <<>>)

(* ---- tui/renderers.py: the two renderers over one chat log ---- *)

\* StreamingMarkdownRenderer(chat_log): update_frequency: int = 5
UpdateFrequency == 5

\* ReasoningRenderer._update_frequency
ReasoningUpdateFrequency == 5

\* the locals of _stream_agent_response: the chat log (`lines` as they stand,
\* `written` every write ever made) and the fields of the two renderers
TuiLocals(lines) ==
    [lines |-> lines, written |-> <<>>,
     text |-> [update_frequency |-> IF UpdateFrequency < 1 THEN 1 ELSE UpdateFrequency,
               buffer |-> <<>>, token_count |-> 0, start_line_count |-> 0,
               rendering_started |-> FALSE],
     reasoning |-> [reasoning_buffer |-> <<>>, is_active |-> FALSE, start_line_count |-> 0,
                    update_counter |-> 0, update_frequency |-> ReasoningUpdateFrequency]]

chat_log_write(self, what, content) ==
    [self EXCEPT !.lines = Append(@, Out("write", what, content)),
                 !.written = Append(@, Out("write", what, content))]

\* the loop of pops of _update_display: the lines after `start` go
chat_log_pop_to(self, start) == [self EXCEPT !.lines = Take(@, start)]

\* the variant that redraws only when the cadence asks for it
StreamingMarkdownRenderer_update_display_at_cadence(self) ==
    IF self.text.buffer = <<>> \/ self.text.token_count % self.text.update_frequency # 0
    THEN self
    ELSE chat_log_write(chat_log_pop_to(self, self.text.start_line_count),
                        "markdown", self.text.buffer)

StreamingMarkdownRenderer_update_display(self) ==
    IF self.text.buffer = <<>>
    THEN self
    ELSE chat_log_write(chat_log_pop_to(self, self.text.start_line_count),
                        "markdown", self.text.buffer)

StreamingMarkdownRenderer_start_rendering(self) ==
    IF ~self.text.rendering_started
    THEN LET banner == chat_log_write(self, "agent_banner", <<>>)
         IN  [banner EXCEPT !.text.start_line_count = Len(banner.lines),
                            !.text.rendering_started = TRUE]
    ELSE self

StreamingMarkdownRenderer_append_token(self, token) ==
    LET started == StreamingMarkdownRenderer_start_rendering(self)
        appended == [started EXCEPT !.text.buffer = @ \o token, !.text.token_count = @ + 1]
    IN  IF appended.text.token_count % appended.text.update_frequency = 0
        THEN StreamingMarkdownRenderer_update_display(appended)
        ELSE appended

StreamingMarkdownRenderer_finalize(self) == StreamingMarkdownRenderer_update_display(self)

ReasoningRenderer_update_display(self) ==
    chat_log_write(chat_log_pop_to(self, self.reasoning.start_line_count),
                   "thinking", self.reasoning.reasoning_buffer)

ReasoningRenderer_start_reasoning(self) ==
    IF ~self.reasoning.is_active
    THEN LET blank == chat_log_write(self, "blank", <<>>)
         IN  [blank EXCEPT !.reasoning.is_active = TRUE,
                           !.reasoning.reasoning_buffer = <<>>,
                           !.reasoning.start_line_count = Len(blank.lines),
                           !.reasoning.update_counter = 0]
    ELSE self

ReasoningRenderer_append_reasoning_token(self, token) ==
    LET appended == [self EXCEPT !.reasoning.reasoning_buffer = @ \o token,
                                 !.reasoning.update_counter = @ + 1]
    IN  IF appended.reasoning.update_counter % appended.reasoning.update_frequency = 0
        THEN ReasoningRenderer_update_display(appended)
        ELSE appended

ReasoningRenderer_finalize_reasoning(self) ==
    LET shown == IF self.reasoning.is_active /\ self.reasoning.reasoning_buffer # <<>>
                 THEN chat_log_write(ReasoningRenderer_update_display(self), "blank", <<>>)
                 ELSE self
    IN  [shown EXCEPT !.reasoning.is_active = FALSE,
                      !.reasoning.reasoning_buffer = <<>>,
                      !.reasoning.start_line_count = 0]

(* ---- tui/app.py: _stream_agent_response ---- *)

\* one pass of the loop of _stream_agent_response
Tui_stream_agent_response_pass(self, event) ==
    CASE event.type = "text_delta" ->
            [self |-> StreamingMarkdownRenderer_append_token(
                          IF self.reasoning.is_active
                          THEN ReasoningRenderer_finalize_reasoning(self)
                          ELSE self,
                          event.content),
             break |-> FALSE]
      [] event.type = "reasoning_delta" ->
            [self |-> ReasoningRenderer_append_reasoning_token(
                          ReasoningRenderer_start_reasoning(self), event.content),
             break |-> FALSE]
      [] event.type = "reasoning_summary" ->
            [self |-> IF ~self.reasoning.is_active
                      THEN chat_log_write(self, "reasoning_summary",
                                          Take(event.content, ToolPreviewLimit)
                                              \o <<".", ".", ".">>)
                      ELSE self,
             break |-> FALSE]
      [] event.type = "tool_call" ->
            [self |-> chat_log_write(IF self.reasoning.is_active
                                     THEN ReasoningRenderer_finalize_reasoning(self)
                                     ELSE self,
                                     "tool_call", event.name),
             break |-> FALSE]
      [] event.type = "tool_output" ->
            [self |-> chat_log_write(self, "tool_output", output_preview(event.output)),
             break |-> FALSE]
      [] event.type = "error" ->
            [self |-> chat_log_write(self, "error", event.content), break |-> TRUE]
      [] OTHER -> [self |-> self, break |-> FALSE]

\* the except and finally clauses of _stream_agent_response; `except Exception`
\* does not catch the CancelledError of a cancelled task
Tui_stream_agent_response_finally(self, exit) ==
    LET caught == IF exit = "exception"
                  THEN chat_log_write(self, "error", <<"exc">>)
                  ELSE self
        closed == IF caught.reasoning.is_active
                  THEN ReasoningRenderer_finalize_reasoning(caught)
                  ELSE caught
    IN  chat_log_write(StreamingMarkdownRenderer_finalize(closed), "blank", <<>>)

(* ---- a turn: the stream, the loop that consumes it, and its exit ---- *)

\* the payloads a stream may carry (agent/events.py, and the error event of
\* run_async_streamed); two tokens of each kind tell the order of arrival
TextDeltas == {[type |-> "text_delta", content |-> <<c>>] : c \in {"c", "d"}}

RenderEvents ==
    TextDeltas
    \cup {[type |-> "reasoning_delta", content |-> <<c>>] : c \in {"a", "b"}}
    \cup {[type |-> "tool_call", name |-> <<"t">>],
          [type |-> "tool_output", output |-> <<"o">>],
          [type |-> "reasoning_summary", content |-> <<"s">>],
          [type |-> "agent_update", name |-> <<"n">>],
          [type |-> "error", content |-> <<"e">>]}

\* a stream of text deltas only is followed for MaxTokens events
MaxTokens == 11

EventsOf(source) == IF source = "text" THEN TextDeltas ELSE RenderEvents
LimitOf(source) == IF source = "text" THEN MaxTokens ELSE MaxEvents

\* a turn before its first event.  phase: "streaming" while the loop runs,
\* "exited" when it was left (exit: "end", "error", "exception", "cancelled"),
\* "done" after the clauses around the loop ran.  received: the events the
\* loop took from the stream; dispatched: those handed to a callback.
Turn(frontend, source, on_error, ignore) ==
    [frontend |-> frontend, source |-> source, on_error |-> on_error, ignore |-> ignore,
     phase |-> "streaming", exit |-> "none", received |-> <<>>, dispatched |-> <<>>,
     cleanup |-> FALSE]

Received(event, called, break) ==
    [turn EXCEPT !.received = Append(@, event),
                 !.dispatched = IF called THEN Append(@, event) ELSE @,
                 !.phase = IF break THEN "exited" ELSE @,
                 !.exit = IF break THEN "error" ELSE @]

Streaming(frontend) ==
    /\ turn.frontend = frontend
    /\ turn.phase = "streaming"
    /\ Len(turn.received) < LimitOf(turn.source)

\* stream_agent_events takes the next event of the stream
stream_agent_events ==
    /\ Streaming("cli")
    /\ \E event \in EventsOf(turn.source) :
          \E pass \in {stream_agent_events_pass(renderer, event, turn.on_error, turn.ignore)} :
              /\ renderer' = pass.self
              /\ turn' = Received(event, pass.called, pass.break)
    /\ UNCHANGED <<sideVars, ollama_agent, sessVars, pureVars, runVars, taskVars>>

\* the loop of run_non_interactive in main.py takes the next event
Main_run_non_interactive ==
    /\ Streaming("main")
    /\ \E event \in EventsOf(turn.source) :
          \E pass \in {Main_run_non_interactive_pass(renderer, event)} :
              /\ renderer' = pass.self
              /\ turn' = Received(event, TRUE, pass.break)
    /\ UNCHANGED <<sideVars, ollama_agent, sessVars, pureVars, runVars, taskVars>>

\* the loop of _stream_agent_response takes the next event
Tui_stream_agent_response ==
    /\ Streaming("tui")
    /\ \E event \in EventsOf(turn.source) :
          \E pass \in {Tui_stream_agent_response_pass(renderer, event)} :
              /\ renderer' = pass.self
              /\ turn' = Received(event, TRUE, pass.break)
    /\ UNCHANGED <<sideVars, ollama_agent, sessVars, pureVars, runVars, taskVars>>

\* the stream ends, raises, or the task that awaits it is cancelled
StreamStops ==
    /\ turn.phase = "streaming"
    /\ \E exit \in {"end", "exception", "cancelled"} :
          turn' = [turn EXCEPT !.phase = "exited", !.exit = exit]
    /\ UNCHANGED <<sideVars, renderer, ollama_agent, sessVars, pureVars, runVars, taskVars>>

Exited(frontend) ==
    /\ turn.frontend = frontend
    /\ turn.phase = "exited"

\* OllamaAgent.cleanup, awaited by the terminal front ends
Cleaned(self) == IF self.mcp_servers # <<>> THEN [self EXCEPT !.mcp_servers = <<>>] ELSE self

\* the finally clause of run_non_interactive in cli.py
Cli_run_non_interactive_finally ==
    /\ Exited("cli")
    /\ renderer' = StreamingConsole_close(renderer)
    /\ ollama_agent' = Cleaned(ollama_agent)
    /\ turn' = [turn EXCEPT !.phase = "done", !.cleanup = TRUE]
    /\ UNCHANGED <<sideVars, sessVars, pureVars, runVars, taskVars>>

\* what follows the loop of run_non_interactive in main.py: the statements
\* after the loop when it ended or broke, then the finally clause
Main_run_non_interactive_finally ==
    /\ Exited("main")
    /\ renderer' = IF turn.exit \in {"end", "error"}
                   THEN Main_run_non_interactive_after_loop(renderer)
                   ELSE renderer
    /\ ollama_agent' = Cleaned(ollama_agent)
    /\ turn' = [turn EXCEPT !.phase = "done", !.cleanup = TRUE]
    /\ UNCHANGED <<sideVars, sessVars, pureVars, runVars, taskVars>>

\* the except and finally clauses of _stream_agent_response
Tui_stream_agent_response_exit ==
    /\ Exited("tui")
    /\ renderer' = Tui_stream_agent_response_finally(renderer, turn.exit)
    /\ turn' = [turn EXCEPT !.phase = "done"]
    /\ UNCHANGED <<sideVars, ollama_agent, sessVars, pureVars, runVars, taskVars>>

\* the agent a front end runs, with and without MCP servers connected
RenderAgents ==
    {[model |-> Named("tools_model"),
      reasoning_effort |-> validate_reasoning_effort(Named("medium")),
      mcp_config_path |-> MCPConfigPath,
      mcp_servers |-> servers,
      agent_cache |-> {},
      agent |-> None] : servers \in {<<>>, <<McpServersPayload[1]>>}}

\* the chat log of the TUI holds the lines of the turns before
InitialRenderer(frontend) ==
    CASE frontend = "cli" -> StreamingConsole
      [] frontend = "main" -> MainLocals
      [] frontend = "tui" -> TuiLocals(<<Out("write", "prompt", <<>>)>>)

InitTurn(frontends, source) ==
    /\ SideIdle
    /\ SessIdle
    /\ TasksIdle
    /\ RunIdle
    /\ input = None
    /\ output = NoCall
    /\ ollama_agent \in RenderAgents
    /\ \E frontend \in frontends, on_error \in BOOLEAN,
          ignore \in {{"agent_update"}, {"agent_update", "error"}} :
          \* run_non_interactive passes renderer.on_error and ignore={"agent_update"};
          \* the other arguments are those of another caller of stream_agent_events
          /\ frontend # "cli" => on_error /\ ignore = {"agent_update"}
          /\ turn = Turn(frontend, source, on_error, ignore)
          /\ renderer = InitialRenderer(frontend)

InitRender == InitTurn({"cli", "main", "tui"}, "any")

NextRender ==
    \/ stream_agent_events
    \/ Main_run_non_interactive
    \/ Tui_stream_agent_response
    \/ StreamStops
    \/ Cli_run_non_interactive_finally
    \/ Main_run_non_interactive_finally
    \/ Tui_stream_agent_response_exit

SpecRender == InitRender /\ [][NextRender]_vars

\* the TUI over streams of text deltas only, long enough for the cadence
InitTokens == InitTurn({"tui"}, "text")

NextTokens ==
    \/ Tui_stream_agent_response
    \/ StreamStops
    \/ Tui_stream_agent_response_exit

SpecTokens == InitTokens /\ [][NextTokens]_vars

(***************************************************************************)
(* The task store (tasks.py): one YAML file per task in tasks_dir, named   *)
(* by the first HASH_LENGTH characters of the Blake2s digest of the title. *)
(* A str of a task is known by name; a YAML scalar is its text and its     *)
(* style, and a plain scalar is resolved to the type its text spells.      *)
(***************************************************************************)
HASH_LENGTH == 8

\* hashlib.blake2s(title.encode('utf-8'), digest_size=16).hexdigest(), for
\* the titles of the model
blake2s_hexdigest(title) ==
    CASE title = Named("1") ->
            <<"2", "f", "1", "6", "b", "a", "f", "c", "6", "f", "6", "c", "3", "5", "e", "a">>
                \o <<"2", "e", "6", "e", "a", "c", "3", "9", "2", "f", "f", "3", "0", "3", "8", "7">>
      [] title = Named("B") ->
            <<"b", "3", "6", "5", "5", "2", "5", "3", "4", "7", "e", "b", "4", "1", "c", "1">>
                \o <<"c", "e", "6", "7", "c", "2", "b", "1", "6", "f", "0", "b", "7", "b", "1", "1">>
      [] title = Named("a") ->
            <<"8", "5", "4", "b", "9", "e", "9", "b", "a", "4", "9", "b", "f", "d", "9", "4">>
                \o <<"5", "7", "d", "4", "c", "3", "b", "f", "9", "6", "e", "4", "2", "5", "2", "3">>
      [] title = Named("b") ->
            <<"8", "e", "d", "e", "f", "1", "7", "0", "e", "1", "6", "0", "d", "6", "d", "4">>
                \o <<"f", "7", "a", "9", "5", "4", "1", "c", "9", "b", "f", "e", "a", "5", "9", "7">>
      [] title = Named("U+2B382") ->
            <<"b", "d", "0", "0", "f", "2", "1", "8", "d", "0", "4", "d", "7", "c", "4", "4">>
                \o <<"5", "7", "6", "c", "7", "b", "6", "c", "6", "6", "f", "9", "f", "2", "1", "8">>
      [] title = Named("U+2E1FA") ->
            <<"b", "d", "0", "0", "f", "2", "1", "8", "5", "6", "9", "e", "6", "8", "1", "0">>
                \o <<"a", "9", "c", "c", "b", "9", "b", "8", "8", "7", "f", "0", "1", "d", "2", "7">>

compute_task_id(title) == Take(blake2s_hexdigest(title), HASH_LENGTH)

\* ord(c) and ord(c.lower()) of the titles of the model, which are one
\* character long: str comparison is comparison of code points
ord(title) ==
    CASE title = Named("1") -> 49
      [] title = Named("B") -> 66
      [] title = Named("a") -> 97
      [] title = Named("b") -> 98
      [] title = Named("U+2B382") -> 176002
      [] title = Named("U+2E1FA") -> 188922

lower(title) == IF title = Named("B") THEN Named("b") ELSE title

Task(title, prompt, model, reasoning_effort) ==
    <<"Task", [title |-> title, prompt |-> prompt, model |-> model,
               reasoning_effort |-> reasoning_effort]>>

\* Task.to_dict: asdict(self)
Task_to_dict(task) ==
    JDict(<<<<"title", task[2].title>>, <<"prompt", task[2].prompt>>,
            <<"model", task[2].model>>,
            <<"reasoning_effort", task[2].reasoning_effort>>>>)

\* Task.from_dict; data is whatever yaml.safe_load returned
Task_from_dict(data) ==
    IF data[1] # "dict"
    THEN Raise("TypeError")
    ELSE IF \E key \in {"title", "prompt", "model"} : ~DictHas(data, key)
    THEN Raise("KeyError")
    ELSE Ok(Task(DictItem(data, "title"), DictItem(data, "prompt"), DictItem(data, "model"),
                 validate_reasoning_effort(IF DictHas(data, "reasoning_effort")
                                           THEN DictItem(data, "reasoning_effort")
                                           ELSE DEFAULT_REASONING_EFFORT)))

(* YAML.  A document is <<"map", lines>>, each line <<key, scalar>> with    *)
(* scalar = [style, text], or the empty document, or text that does not    *)
(* parse.                                                                  *)
YamlNull == {"", "null", "~"}
YamlBool == {"true", "false"}
YamlInt == {"1"}

Scalar(style, text) == [style |-> style, text |-> text]

\* the variant that writes every str as a plain scalar
yaml_represent_plain(value) ==
    IF value = None THEN Scalar("plain", "null") ELSE Scalar("plain", value[2])

\* the representer of safe_dump: a str whose text a plain scalar would
\* resolve to another type is written in quotes
yaml_represent(value) ==
    IF value = None THEN Scalar("plain", "null")
    ELSE IF value[2] \in YamlNull \cup YamlBool \cup YamlInt
    THEN Scalar("single", value[2])
    ELSE Scalar("plain", value[2])

\* the resolver of safe_load
yaml_resolve(scalar) ==
    IF scalar.style = "single" THEN Named(scalar.text)
    ELSE IF scalar.text \in YamlNull THEN None
    ELSE IF scalar.text \in YamlBool THEN JBool(scalar.text = "true")
    ELSE IF scalar.text \in YamlInt THEN JInt(1)
    ELSE Named(scalar.text)

\* yaml.safe_dump(data, default_flow_style=False): block style, keys sorted
yaml_safe_dump(data) ==
    LET keys == SelectSeq(<<"model", "prompt", "reasoning_effort", "title">>,
                          LAMBDA key : DictHas(data, key))
    IN  <<"map", [i \in 1..Len(keys) |-> <<keys[i], yaml_represent(DictItem(data, keys[i]))>>]>>

EmptyDocument == <<"empty">>
InvalidDocument == <<"invalid">>

yaml_safe_load(document) ==
    IF document = InvalidDocument THEN Raise("yaml.YAMLError")
    ELSE IF document = EmptyDocument THEN Ok(None)
    ELSE Ok(JDict([i \in 1..Len(document[2]) |->
                      <<document[2][i][1], yaml_resolve(document[2][i][2])>>]))

(* TaskManager.  tasks_dir maps the stem of every file name the model uses  *)
(* to the document in the file, or to NoFile.                              *)
NoFile == <<"absent">>

\* TaskManager.load_task
TaskManager_load_task(dir, task_id) ==
    IF dir[task_id] = NoFile
    THEN None
    ELSE Bind(yaml_safe_load(dir[task_id]), LAMBDA loaded :
             IF ~loaded.ok THEN None
             ELSE Bind(Task_from_dict(loaded.value), LAMBDA made :
                      IF made.ok THEN made.value ELSE None))

\* the variant that empties the directory before it writes
TaskManager_save_task_alone(dir, task) ==
    LET task_id == compute_task_id(task[2].title)
    IN  [ret |-> task_id,
         dir |-> [stem \in DOMAIN dir |->
                     IF stem = task_id THEN yaml_safe_dump(Task_to_dict(task)) ELSE NoFile]]

\* TaskManager.save_task: the id returned and the directory after it
TaskManager_save_task(dir, task) ==
    LET task_id == compute_task_id(task[2].title)
    IN  [ret |-> task_id,
         dir |-> [dir EXCEPT ![task_id] = yaml_safe_dump(Task_to_dict(task))]]

\* the variant that reports success whatever unlink did
TaskManager_delete_task_optimistic(dir, task_id, unlink_fails) ==
    IF dir[task_id] = NoFile
    THEN [ret |-> FALSE, dir |-> dir]
    ELSE [ret |-> TRUE, dir |-> IF unlink_fails THEN dir ELSE [dir EXCEPT ![task_id] = NoFile]]

\* TaskManager.delete_task
TaskManager_delete_task(dir, task_id, unlink_fails) ==
    IF dir[task_id] = NoFile
    THEN [ret |-> FALSE, dir |-> dir]
    ELSE IF unlink_fails
    THEN [ret |-> FALSE, dir |-> dir]
    ELSE [ret |-> TRUE, dir |-> [dir EXCEPT ![task_id] = NoFile]]

\* list.sort(key=...): a stable sort, as insertion after the last element
\* whose key is not greater
RECURSIVE sort_by_title(_, _)
sort_by_title(tasks, i) ==
    IF i > Len(tasks) THEN <<>>
    ELSE LET sorted == sort_by_title(tasks, i + 1)
             \* tasks[i] goes before the first later element with a smaller key
             smaller == {j \in 1..Len(sorted) :
                            ord(sorted[j][2][2].title) < ord(tasks[i][2][2].title)}
             stop == IF smaller = {} THEN 0 ELSE CHOOSE j \in smaller : \A k \in smaller : k <= j
         IN  SubSeq(sorted, 1, stop) \o <<tasks[i]>> \o SubSeq(sorted, stop + 1, Len(sorted))

\* the variant that returns the tasks in the order glob found them
TaskManager_list_tasks_unsorted(dir, found) ==
    LET loadable == SelectSeq(found, LAMBDA stem : TaskManager_load_task(dir, stem) # None)
    IN  [i \in 1..Len(loadable) |-> <<loadable[i], TaskManager_load_task(dir, loadable[i])>>]

\* TaskManager.list_tasks, glob yielding the files in the order `found`
TaskManager_list_tasks(dir, found) ==
    LET loadable == SelectSeq(found, LAMBDA stem : TaskManager_load_task(dir, stem) # None)
    IN  sort_by_title([i \in 1..Len(loadable) |->
                          <<loadable[i], TaskManager_load_task(dir, loadable[i])>>], 1)

\* fnmatch of one path component, as Path.glob matches a file name: "*" is
\* any run of characters, "?" any one character, every other character of
\* the model's patterns is itself
RECURSIVE fnmatch(_, _)
fnmatch(name, pattern) ==
    IF pattern = <<>> THEN name = <<>>
    ELSE IF Head(pattern) = "*"
    THEN fnmatch(name, Tail(pattern)) \/ (name # <<>> /\ fnmatch(Tail(name), pattern))
    ELSE IF name = <<>> THEN FALSE
    ELSE IF Head(pattern) = "?" THEN fnmatch(Tail(name), Tail(pattern))
    ELSE Head(name) = Head(pattern) /\ fnmatch(Tail(name), Tail(pattern))

YamlSuffix == <<".", "y", "a", "m", "l">>

\* self.tasks_dir.glob(f"{prefix}*.yaml"): the directory without the files
\* whose names the pattern does not match
glob_prefix(dir, prefix) ==
    [stem \in DOMAIN dir |->
        IF fnmatch(stem \o YamlSuffix, prefix \o <<"*">> \o YamlSuffix) THEN dir[stem] ELSE NoFile]

\* TaskManager.find_task_by_prefix; found is what the glob yields, in its order
TaskManager_find_task_by_prefix(dir, found) ==
    LET loadable == SelectSeq(found, LAMBDA stem : TaskManager_load_task(dir, stem) # None)
        matches == [i \in 1..Len(loadable) |->
                       <<loadable[i], TaskManager_load_task(dir, loadable[i])>>]
    IN  IF Len(matches) = 0 THEN None
        ELSE IF Len(matches) = 1 THEN matches[1]
        ELSE None

\* the ids a user types: a whole id, beginnings of ids, nothing (the beginning
\* of every id), the beginning of no id, and text with the characters a
\* shell completes file names with
Prefixes ==
    {<<>>, <<"8">>, <<"8", "5">>, <<"b", "3">>, <<"n", "o">>, <<"f">>, <<"*">>, <<"?", "5">>,
     compute_task_id(Named("a"))}

\* the tasks the application saves: create_task_screen validates the effort
\* and refuses an empty title, prompt or model.  "1" and "true" are texts that
\* a plain scalar would resolve to an int and a bool.
TaskTitles == {Named("1"), Named("B"), Named("a")}

\* U+2B382 and U+2E1FA are two ideographs, titles of one character each, whose
\* Blake2s digests begin with the same HASH_LENGTH characters
CollidingTitles == {Named("U+2B382"), Named("U+2E1FA")}

ValidTasks ==
    {Task(title, Named(body[1]), Named("m"), Named(body[2])) :
        title \in TaskTitles \cup CollidingTitles,
        body \in {<<"p", "low">>, <<"true", "disabled">>}}

\* a file that save_task did not write
HandStem == <<"n", "o", "t", "e", "s">>

HandDocument(effort, title) ==
    <<"map", <<<<"model", Scalar("plain", "m")>>, <<"prompt", Scalar("plain", "p")>>>>
                 \o effort \o title>>

HandDocuments ==
    {HandDocument(effort, <<<<"title", Scalar("plain", "b")>>>>) :
        effort \in {<<>>,
                    <<<<"reasoning_effort", Scalar("plain", "extreme")>>>>,
                    <<<<"reasoning_effort", Scalar("plain", "1")>>>>}}
    \cup {HandDocument(<<>>, <<>>), EmptyDocument, InvalidDocument}

\* the stems of the model: the ids of the titles, one id never saved, and the
\* file written by hand
\* the file stems of a directory of the model: the ids of the titles saved
\* into it, the id of "b" and the stem of the file written by hand
StemsOf(titles) == {compute_task_id(title) : title \in titles \cup {Named("b")}} \cup {HandStem}

TaskStems == DOMAIN tasks_dir

\* the orders in which glob may yield the files of a directory
GlobOrders(dir) ==
    LET files == {stem \in DOMAIN dir : dir[stem] # NoFile}
    IN  {found \in [1..Cardinality(files) -> files] :
            \A i, j \in 1..Cardinality(files) : found[i] = found[j] => i = j}

TaskCall(op, arg, ret) ==
    [op |-> op, arg |-> arg, ret |-> ret, before |-> tasks_dir, stored |-> task_map]

\* TaskManager(tasks_dir) over a directory that holds at most a file written
\* by hand; task_map is the map the store stands for: stem -> task or None
InitTasks ==
    /\ SideIdle
    /\ SessIdle
    /\ RunIdle
    /\ input = None
    /\ output = NoCall
    /\ ollama_agent = None
    /\ renderer = None
    /\ turn = None
    /\ \E document \in HandDocuments \cup {NoFile} :
          tasks_dir = [stem \in StemsOf(TaskTitles) |->
                          IF stem = HandStem THEN document ELSE NoFile]
    /\ task_map = [stem \in DOMAIN tasks_dir |-> TaskManager_load_task(tasks_dir, stem)]
    /\ task_call = [op |-> "init", arg |-> None, ret |-> None,
                    before |-> tasks_dir, stored |-> task_map]

save_task ==
    /\ \E task \in {valid \in ValidTasks : compute_task_id(valid[2].title) \in TaskStems} :
          \E saved \in {TaskManager_save_task(tasks_dir, task)} :
              /\ tasks_dir' = saved.dir
              /\ task_map' = [task_map EXCEPT ![compute_task_id(task[2].title)] = task]
              /\ task_call' = TaskCall("save", task, saved.ret)
    /\ UNCHANGED <<sideVars, ollama_agent, renderer, turn, sessVars, pureVars, runVars>>

load_task ==
    /\ \E task_id \in TaskStems :
          task_call' = TaskCall("load", task_id, TaskManager_load_task(tasks_dir, task_id))
    /\ UNCHANGED <<sideVars, tasks_dir, task_map, ollama_agent, renderer, turn, sessVars, pureVars,
                   runVars>>

\* unlink may fail (the file is not the user's to remove)
delete_task ==
    /\ \E task_id \in TaskStems, unlink_fails \in BOOLEAN :
          \E deleted \in {TaskManager_delete_task(tasks_dir, task_id, unlink_fails)} :
              /\ tasks_dir' = deleted.dir
              /\ task_map' = IF deleted.ret THEN [task_map EXCEPT ![task_id] = None]
                             ELSE task_map
              /\ task_call' = TaskCall("delete", task_id, deleted.ret)
    /\ UNCHANGED <<sideVars, ollama_agent, renderer, turn, sessVars, pureVars, runVars>>

list_tasks ==
    /\ \E found \in GlobOrders(tasks_dir) :
          task_call' = TaskCall("list", found, TaskManager_list_tasks(tasks_dir, found))
    /\ UNCHANGED <<sideVars, tasks_dir, task_map, ollama_agent, renderer, turn, sessVars, pureVars,
                   runVars>>

find_task_by_prefix ==
    /\ \E prefix \in Prefixes :
          \E found \in GlobOrders(glob_prefix(tasks_dir, prefix)) :
              task_call' = TaskCall("find", prefix,
                                    TaskManager_find_task_by_prefix(tasks_dir, found))
    /\ UNCHANGED <<sideVars, tasks_dir, task_map, ollama_agent, renderer, turn, sessVars, pureVars,
                   runVars>>

NextTasks == save_task \/ load_task \/ delete_task \/ list_tasks \/ find_task_by_prefix

SpecTasks == InitTasks /\ [][NextTasks]_vars

\* TaskManager(tasks_dir) over an empty directory, for the user who saves
\* tasks titled "a", U+2B382 and U+2E1FA
InitIds ==
    /\ SideIdle
    /\ SessIdle
    /\ RunIdle
    /\ input = None
    /\ output = NoCall
    /\ ollama_agent = None
    /\ renderer = None
    /\ turn = None
    /\ tasks_dir = [stem \in StemsOf({Named("a")} \cup CollidingTitles) |-> NoFile]
    /\ task_map = [stem \in DOMAIN tasks_dir |-> None]
    /\ task_call = [op |-> "init", arg |-> None, ret |-> None,
                    before |-> tasks_dir, stored |-> task_map]

SpecIds == InitIds /\ [][NextTasks]_vars

(***************************************************************************)
(* The built-in tools (agent/tools.py).  A command is what running it      *)
(* does: the exception that keeps subprocess.run from running it, if any,  *)
(* the seconds it takes, and the exit code and the output it gives; the    *)
(* output of a command that is killed at the time limit is what it wrote   *)
(* until then.  A call of the memory manager is its outcome.               *)
(***************************************************************************)
DefaultBuiltinToolTimeout == 30

\* the `global` of set_builtin_tool_timeout
set_builtin_tool_timeout_of(timeout) == timeout

get_builtin_tool_timeout == builtin_tool_timeout

\* _error
CommandError(stderr) == [success |-> FALSE, stdout |-> <<>>, stderr |-> stderr, exit_code |-> -1]

\* subprocess.run(command, shell=True, capture_output=True, text=True,
\* timeout=timeout): the CompletedProcess, or TimeoutExpired with the output
\* captured so far, or the exception of a command that cannot be run
subprocess_run(command, timeout) ==
    IF command.fails # "no"
    THEN [ok |-> FALSE, exc |-> command.fails, stdout |-> <<>>, stderr |-> <<>>]
    ELSE IF command.seconds > timeout
    THEN [ok |-> FALSE, exc |-> "TimeoutExpired", stdout |-> command.stdout,
          stderr |-> command.stderr]
    ELSE Ok([returncode |-> command.returncode, stdout |-> command.stdout,
             stderr |-> command.stderr])

\* the variant that runs the command under the limit the module starts with
execute_command_default(command) ==
    Bind(subprocess_run(command, DefaultBuiltinToolTimeout), LAMBDA result :
        IF result.ok
        THEN Ok([success |-> result.value.returncode = 0, stdout |-> result.value.stdout,
                 stderr |-> result.value.stderr, exit_code |-> result.value.returncode])
        ELSE IF result.exc = "TimeoutExpired"
        THEN Ok(CommandError(<<"exceeded the time limit", DefaultBuiltinToolTimeout>>))
        ELSE Ok(CommandError(<<"Error executing command", result.exc>>)))

\* execute_command; every exception of the model is an Exception
execute_command(command) ==
    Bind(get_builtin_tool_timeout, LAMBDA timeout :
    Bind(subprocess_run(command, timeout), LAMBDA result :
        IF result.ok
        THEN Ok([success |-> result.value.returncode = 0, stdout |-> result.value.stdout,
                 stderr |-> result.value.stderr, exit_code |-> result.value.returncode])
        ELSE IF result.exc = "TimeoutExpired"
        THEN Ok(CommandError(<<"exceeded the time limit", timeout>>))
        ELSE Ok(CommandError(<<"Error executing command", result.exc>>))))

\* _mem0_error
Mem0Error(message) == [success |-> FALSE, error |-> message]

\* mem0_add_memory and mem0_search_memory around the outcome of
\* add_memory_entry and search_memories
mem0_tool(outcome, verb) ==
    IF outcome.ok THEN Ok([success |-> TRUE, data |-> outcome.value])
    ELSE IF outcome.exc = "Mem0NotConfiguredError"
    THEN Ok(Mem0Error(<<"Mem0 integration is not initialized">>))
    ELSE IF outcome.exc = "Mem0InitializationError"
    THEN Ok(Mem0Error(<<"Mem0 initialization failed", outcome.exc>>))
    ELSE Ok(Mem0Error(<<"Failed to " \o verb, outcome.exc>>))

mem0_add_memory(outcome) == mem0_tool(outcome, "add memory")

mem0_search_memory(outcome) == mem0_tool(outcome, "search memories")

\* the limits set from the command line, below and above the default
Timeouts == {1, 3, 60}

\* commands that end at once, after 2 seconds and after 40, with the exit
\* codes 0, 1 and 127; a command with a NUL character (ValueError), one whose
\* output is not text (UnicodeDecodeError), and one for which no process
\* can be made (OSError)
Commands ==
    {[fails |-> "no", seconds |-> seconds, returncode |-> returncode, stdout |-> stdout,
      stderr |-> stderr] :
        seconds \in {0, 2, 40}, returncode \in {0, 1, 127}, stdout \in {<<>>, <<"o">>},
        stderr \in {<<>>, <<"e">>}}
    \cup {[fails |-> exc, seconds |-> 0, returncode |-> 0, stdout |-> <<>>, stderr |-> <<>>] :
            exc \in {"ValueError", "UnicodeDecodeError", "OSError"}}

MemoryOutcomes ==
    {Ok(JDict(<<<<"results", JList(<<>>)>>>>)), Raise("Mem0NotConfiguredError"),
     Raise("Mem0InitializationError"), Raise("ConnectionError")}

\* a call of a tool: the limit last passed to set_builtin_tool_timeout
\* before it (None when none was), its argument and what came back
ToolCall(tool, arg, set, out) == [tool |-> tool, arg |-> arg, set |-> set, out |-> out]

\* the module as imported
InitTools ==
    /\ SessIdle
    /\ RunIdle
    /\ AppIdle
    /\ input = None
    /\ output = NoCall
    /\ mcp = None
    /\ mem0 = None
    /\ chat = None
    /\ builtin_tool_timeout = DefaultBuiltinToolTimeout
    /\ tool_result = ToolCall("none", None, None, None)

set_builtin_tool_timeout ==
    /\ \E timeout \in Timeouts :
          /\ builtin_tool_timeout' = set_builtin_tool_timeout_of(timeout)
          /\ tool_result' = ToolCall("set_builtin_tool_timeout", timeout, <<"set", timeout>>, None)
    /\ UNCHANGED <<mcp, mem0, chat, sessVars, pureVars, runVars, appVars>>

execute_command_tool ==
    /\ \E command \in Commands :
          tool_result' = ToolCall("execute_command", command, tool_result.set,
                                  execute_command(command))
    /\ UNCHANGED <<builtin_tool_timeout, mcp, mem0, chat, sessVars, pureVars, runVars, appVars>>

mem0_add_memory_tool ==
    /\ \E outcome \in MemoryOutcomes :
          tool_result' = ToolCall("mem0_add_memory", outcome, tool_result.set,
                                  mem0_add_memory(outcome))
    /\ UNCHANGED <<builtin_tool_timeout, mcp, mem0, chat, sessVars, pureVars, runVars, appVars>>

mem0_search_memory_tool ==
    /\ \E outcome \in MemoryOutcomes :
          tool_result' = ToolCall("mem0_search_memory", outcome, tool_result.set,
                                  mem0_search_memory(outcome))
    /\ UNCHANGED <<builtin_tool_timeout, mcp, mem0, chat, sessVars, pureVars, runVars, appVars>>

NextTools ==
    \/ set_builtin_tool_timeout
    \/ execute_command_tool
    \/ mem0_add_memory_tool
    \/ mem0_search_memory_tool

SpecTools == InitTools /\ [][NextTools]_vars

(***************************************************************************)
(* The connections to the MCP servers (settings/mcp.py) under an           *)
(* OllamaAgent.  A connection is known by the initialization that made it  *)
(* and the place of its server in the configuration; it is "entered" once  *)
(* enter_async_context returned, "closed" once its exit stack was closed,  *)
(* "failed" once closing it raised.  shutdowns counts the calls of its     *)
(* shutdown().                                                             *)
(***************************************************************************)
MaxInitializations == 2

\* the configuration of the runner and one more server whose agent can be
\* built, so that two servers may run
ConfiguredServers == McpServersPayload \o <<[name |-> "web", model |-> Named("tools_model")]>>

ConnectionEnvironments ==
    [config_exists : BOOLEAN, connects : [1..Len(ConfiguredServers) -> BOOLEAN],
     reachable : BOOLEAN, closing : [1..Len(ConfiguredServers) -> {"no", "Exception"}]]

NoConnection == [status |-> "none", shutdowns |-> 0]

\* self._closer(): stack.aclose() returns, or raises what closing raised
closer(failure) == IF failure = "no" THEN Ok(None) ELSE Raise(failure)

\* one pass of the loop of initialize_mcp_servers: the connection is not made
\* (closing the empty stack does nothing), or made and closed again for want of
\* an agent, which may raise, or made and kept
initialize_server(config, connects, cache, reachable, failure) ==
    IF ~connects
    THEN [status |-> "none", cache |-> cache, out |-> Ok(None)]
    ELSE Bind(build_mcp_agent(config, None, cache, reachable), LAMBDA bundle :
             IF bundle.out = None
             THEN [status |-> IF closer(failure).ok THEN "closed" ELSE "failed",
                   cache |-> bundle.cache, out |-> closer(failure)]
             ELSE [status |-> "running", cache |-> bundle.cache, out |-> Ok(None)])

\* the loop of initialize_mcp_servers from server i on: what became of each
\* connection, the running list as places in the configuration, and whether
\* the function returned
RECURSIVE initialize_connections(_, _, _, _, _)
initialize_connections(i, env, statuses, running, cache) ==
    IF i > Len(ConfiguredServers)
    THEN [statuses |-> statuses, running |-> running, cache |-> cache, out |-> Ok(None)]
    ELSE Bind(initialize_server(ConfiguredServers[i], env.connects[i], cache, env.reachable,
                                env.closing[i]),
              LAMBDA made :
                  IF ~made.out.ok
                  THEN [statuses |-> Append(statuses, made.status)
                                       \o [k \in 1..(Len(ConfiguredServers) - i) |-> "none"],
                        running |-> running, cache |-> made.cache, out |-> made.out]
                  ELSE initialize_connections(i + 1, env, Append(statuses, made.status),
                                              IF made.status = "running"
                                              THEN Append(running, i) ELSE running,
                                              made.cache))

\* RunningMCPServer.shutdown with every exception passed on
RunningMCPServer_shutdown_raising(conn, failure) ==
    [conn |-> [status |-> IF closer(failure).ok THEN "closed" ELSE "failed",
               shutdowns |-> conn.shutdowns + 1],
     out |-> closer(failure)]

\* RunningMCPServer.shutdown: CancelledError and Exception are logged
RunningMCPServer_shutdown(conn, failure) ==
    [conn |-> [status |-> IF closer(failure).ok THEN "closed" ELSE "failed",
               shutdowns |-> conn.shutdowns + 1],
     out |-> IF closer(failure).ok \/ closer(failure).exc \in {"CancelledError", "Exception"}
             THEN Ok(None)
             ELSE closer(failure)]

\* cleanup_mcp_servers: the loop over the entries from the k-th on
RECURSIVE cleanup_mcp_servers(_, _, _, _)
cleanup_mcp_servers(servers, k, conns, failures) ==
    IF k > Len(servers)
    THEN [conns |-> conns, out |-> Ok(None)]
    ELSE Bind(RunningMCPServer_shutdown(conns[servers[k]], failures[servers[k][2]]),
              LAMBDA down :
                  IF ~down.out.ok
                  THEN [conns |-> [conns EXCEPT ![servers[k]] = down.conn], out |-> down.out]
                  ELSE cleanup_mcp_servers(servers, k + 1,
                                           [conns EXCEPT ![servers[k]] = down.conn], failures))

McpCall(op, returned, raised) ==
    [op |-> op, returned |-> returned, raised |-> raised, before |-> mcp.servers,
     generation |-> mcp.generation]

ConnectionIds == (1..MaxInitializations) \X (1..Len(ConfiguredServers))

\* OllamaAgent(model, mcp_config_path=MCPConfigPath): no server runs
InitMcp ==
    /\ SessIdle
    /\ AppIdle
    /\ input = None
    /\ output = NoCall
    /\ builtin_tool_timeout = None
    /\ tool_result = None
    /\ mem0 = None
    /\ chat = None
    /\ agent_manager = None
    /\ stream = NoRun
    /\ capabilities_cache = [model \in ModelNames |-> Miss]
    /\ mcp = [generation |-> 0,
              conns |-> [id \in ConnectionIds |-> NoConnection],
              servers |-> <<>>,
              call |-> [op |-> "init", returned |-> <<>>, raised |-> "none", before |-> <<>>,
                        generation |-> 0]]

\* the first statement of OllamaAgent._ensure_mcp_servers_initialized:
\* self.mcp_servers = await initialize_mcp_servers(self.mcp_config_path)
Mcp_ensure_mcp_servers_initialized ==
    /\ mcp.servers = <<>>
    /\ mcp.generation < MaxInitializations
    /\ \E env \in ConnectionEnvironments :
          IF ~env.config_exists
          THEN /\ mcp' = [mcp EXCEPT !.generation = mcp.generation + 1,
                                      !.call = McpCall("initialize", <<>>, "none")]
               /\ UNCHANGED capabilities_cache
          ELSE \E made \in {initialize_connections(1, env, <<>>, <<>>, capabilities_cache)} :
               \E generation \in {mcp.generation + 1} :
               \E running \in {[k \in DOMAIN made.running |-> <<generation, made.running[k]>>]} :
                  /\ mcp' = [generation |-> generation,
                             conns |-> [id \in ConnectionIds |->
                                           IF id[1] = generation
                                           THEN [status |-> made.statuses[id[2]], shutdowns |-> 0]
                                           ELSE mcp.conns[id]],
                             servers |-> IF made.out.ok THEN running ELSE mcp.servers,
                             call |-> IF made.out.ok
                                      THEN McpCall("initialize", running, "none")
                                      ELSE McpCall("initialize", <<>>, made.out.exc)]
                  /\ capabilities_cache' = made.cache
    /\ UNCHANGED <<builtin_tool_timeout, tool_result, mem0, chat, agent_manager, stream,
                   sessVars, pureVars, appVars>>

\* OllamaAgent.cleanup; closing a connection may raise
Mcp_cleanup ==
    /\ \E failures \in [1..Len(ConfiguredServers) -> {"no", "Exception", "CancelledError"}] :
          IF mcp.servers = <<>>
          THEN mcp' = [mcp EXCEPT !.call = McpCall("cleanup", <<>>, "none")]
          ELSE \E cleaned \in {cleanup_mcp_servers(mcp.servers, 1, mcp.conns, failures)} :
                  mcp' = [mcp EXCEPT
                             !.conns = cleaned.conns,
                             !.servers = IF cleaned.out.ok THEN <<>> ELSE @,
                             !.call = McpCall("cleanup", <<>>,
                                              IF cleaned.out.ok THEN "none"
                                              ELSE cleaned.out.exc)]
    /\ UNCHANGED <<builtin_tool_timeout, tool_result, mem0, chat, runVars, sessVars, pureVars,
                   appVars>>

NextMcp == Mcp_ensure_mcp_servers_initialized \/ Mcp_cleanup

SpecMcp == InitMcp /\ [][NextMcp]_vars

----------------------------------------------------------------------------
(* The Mem0 manager (memory/manager.py) called from several threads.  The  *)
(* module keeps _active_settings and _memory_instance behind _memory_lock; *)
(* each `with _memory_lock:` block is entered by memory_lock_acquire and   *)
(* left at the end of the step that runs its body.  A Memory instance is   *)
(* written as the settings it was built from.                              *)

Threads == {1, 2}
Mem0SettingsValues == {"s1", "s2"}

Idle == [pc |-> "idle", op |-> "none", settings |-> "None", memory |-> "None",
         result |-> "none"]

\* a thread enters a function of the module
Enter(t, op, pc, settings) ==
    [mem0 EXCEPT !.threads[t] = [pc |-> pc, op |-> op, settings |-> settings,
                                 memory |-> "None", result |-> "none"]]

\* the function returns or raises
Leave(thread, result) == [thread EXCEPT !.pc = "idle", !.result = result]

\* the block a waiting thread enters
Block ==
    [cfg_wait_check |-> "cfg_check", cfg_wait_update |-> "cfg_update",
     req_wait |-> "req", ens_wait |-> "ens"]

\* the module after import: nothing configured, nothing cached
InitMem0 ==
    /\ SessIdle
    /\ RunIdle
    /\ AppIdle
    /\ input = None
    /\ output = NoCall
    /\ builtin_tool_timeout = None
    /\ tool_result = None
    /\ mcp = None
    /\ chat = None
    /\ mem0 = [active_settings |-> "None", memory_instance |-> "None", builds |-> 0,
               lock |-> 0, threads |-> [t \in Threads |-> Idle]]

\* what the manager never touches
Mem0Rest ==
    <<builtin_tool_timeout, tool_result, mcp, chat, runVars, sessVars, pureVars, appVars>>

\* configure_mem0(settings) is called
call_configure_mem0(t) ==
    /\ mem0.threads[t].pc = "idle"
    /\ \E settings \in Mem0SettingsValues :
          mem0' = Enter(t, "configure_mem0", "cfg_wait_check", settings)
    /\ UNCHANGED Mem0Rest

\* add_memory_entry(memory_text) is called
call_add_memory_entry(t) ==
    /\ mem0.threads[t].pc = "idle"
    /\ mem0' = Enter(t, "add_memory_entry", "req_wait", "None")
    /\ UNCHANGED Mem0Rest

\* search_memories(query) is called
call_search_memories(t) ==
    /\ mem0.threads[t].pc = "idle"
    /\ mem0' = Enter(t, "search_memories", "req_wait", "None")
    /\ UNCHANGED Mem0Rest

\* with _memory_lock: the thread waits until the lock is free
memory_lock_acquire(t) ==
    /\ mem0.threads[t].pc \in DOMAIN Block
    /\ mem0.lock = 0
    /\ mem0' = [mem0 EXCEPT !.lock = t, !.threads[t].pc = Block[mem0.threads[t].pc]]
    /\ UNCHANGED Mem0Rest

\* configure_mem0, first block: nothing to do when these settings are active
\* and an instance is cached
configure_mem0_check(t) ==
    /\ mem0.threads[t].pc = "cfg_check"
    /\ mem0.lock = t
    /\ mem0' = [mem0 EXCEPT
                   !.lock = 0,
                   !.threads[t] =
                       IF mem0.active_settings = mem0.threads[t].settings
                          /\ mem0.memory_instance # "None"
                       THEN Leave(@, "None")
                       ELSE [@ EXCEPT !.pc = "cfg_bootstrap"]]
    /\ UNCHANGED Mem0Rest

\* configure_mem0: ensure_qdrant_service(settings), outside the lock; a
\* MemoryBootstrapError is raised again as Mem0InitializationError
ensure_qdrant_service(t) ==
    /\ mem0.threads[t].pc = "cfg_bootstrap"
    /\ \E started \in BOOLEAN :
          mem0' = [mem0 EXCEPT
                      !.threads[t] = IF started
                                     THEN [@ EXCEPT !.pc = "cfg_wait_update"]
                                     ELSE Leave(@, "Mem0InitializationError")]
    /\ UNCHANGED Mem0Rest

\* configure_mem0, second block: new settings replace the active ones and
\* clear the cached instance
configure_mem0_update(t) ==
    /\ mem0.threads[t].pc = "cfg_update"
    /\ mem0.lock = t
    /\ mem0' = [mem0 EXCEPT
                   !.lock = 0,
                   !.active_settings = mem0.threads[t].settings,
                   !.memory_instance = IF mem0.active_settings # mem0.threads[t].settings
                                       THEN "None" ELSE @,
                   !.builds = IF mem0.active_settings # mem0.threads[t].settings
                              THEN 0 ELSE @,
                   !.threads[t] = Leave(@, "None")]
    /\ UNCHANGED Mem0Rest

\* _require_settings, called first by add_memory_entry and search_memories
require_settings(t) ==
    /\ mem0.threads[t].pc = "req"
    /\ mem0.lock = t
    /\ mem0' = [mem0 EXCEPT
                   !.lock = 0,
                   !.threads[t] =
                       IF mem0.active_settings = "None"
                       THEN Leave(@, "Mem0NotConfiguredError")
                       ELSE [@ EXCEPT !.pc = "ens_wait",
                                      !.settings = mem0.active_settings]]
    /\ UNCHANGED Mem0Rest

\* _ensure_memory_instance(settings): the cached instance, or one built from
\* the settings the caller read; Memory.from_config may raise
ensure_memory_instance(t) ==
    /\ mem0.threads[t].pc = "ens"
    /\ mem0.lock = t
    /\ IF mem0.memory_instance # "None"
       THEN mem0' = [mem0 EXCEPT
                        !.lock = 0,
                        !.threads[t] = [@ EXCEPT !.pc = "use",
                                                 !.memory = mem0.memory_instance]]
       ELSE \E built \in BOOLEAN :
               mem0' = IF built
                       THEN [mem0 EXCEPT
                                !.lock = 0,
                                !.memory_instance = mem0.threads[t].settings,
                                !.builds = @ + 1,
                                !.threads[t] = [@ EXCEPT !.pc = "use",
                                                         !.memory = mem0.threads[t].settings]]
                       ELSE [mem0 EXCEPT
                                !.lock = 0,
                                !.threads[t] = Leave(@, "Mem0InitializationError")]
    /\ UNCHANGED Mem0Rest

\* memory.add(memory_text, user_id=settings.user_id) or
\* memory.search(query, user_id=settings.user_id), and the result as a dict
memory_call(t) ==
    /\ mem0.threads[t].pc = "use"
    /\ mem0' = [mem0 EXCEPT !.threads[t] = Leave(@, "dict")]
    /\ UNCHANGED Mem0Rest

NextMem0 ==
    \E t \in Threads :
        \/ call_configure_mem0(t)
        \/ call_add_memory_entry(t)
        \/ call_search_memories(t)
        \/ memory_lock_acquire(t)
        \/ configure_mem0_check(t)
        \/ ensure_qdrant_service(t)
        \/ configure_mem0_update(t)
        \/ require_settings(t)
        \/ ensure_memory_instance(t)
        \/ memory_call(t)

SpecMem0 == InitMem0 /\ [][NextMem0]_vars

----------------------------------------------------------------------------
(* The chat screen of the TUI (tui/app.py) with its session and task       *)
(* dialogs.  ChatInterface is a Textual App: its message handlers run one  *)
(* at a time, so while on_input_submitted awaits _stream_agent_response no *)
(* key or button reaches a handler; a coroutine given to run_worker runs   *)
(* beside the handlers.  Session ids are the numbers uuid4 issued.         *)

MaxChatSessions == 3
MaxStreams == 2

\* the record of a handler that started a response or changed the session:
\* the responses in flight when it took effect
ChatCall(op, current) ==
    [op |-> op, current |-> current,
     inflight |-> [k \in DOMAIN chat.streams |-> chat.streams[k].from]]

\* ChatInterface after on_mount: a fresh session, the chat screen, no response
InitChat ==
    /\ SessIdle
    /\ RunIdle
    /\ AppIdle
    /\ input = None
    /\ output = NoCall
    /\ builtin_tool_timeout = None
    /\ tool_result = None
    /\ mcp = None
    /\ mem0 = None
    /\ chat = [pump |-> "free", screen |-> "chat", listed |-> {}, streams |-> <<>>,
               session_id |-> 1, issued |-> 1, stored |-> {},
               last |-> [op |-> "init", current |-> FALSE, inflight |-> <<>>]]

ChatRest ==
    <<builtin_tool_timeout, tool_result, mcp, mem0, runVars, sessVars, pureVars, appVars>>

\* a response starts streaming against the current session, which the runtime
\* stores
StartStream(from) ==
    [chat EXCEPT !.streams = Append(@, [from |-> from, session |-> chat.session_id]),
                 !.stored = @ \cup {chat.session_id},
                 !.last = ChatCall("stream", TRUE)]

\* SessionManager.reset_session under the chat screen
ResetSession(c) == [c EXCEPT !.session_id = c.issued + 1, !.issued = c.issued + 1]

\* on_input_submitted with a non-empty message: the handler awaits the response
on_input_submitted ==
    /\ chat.pump = "free"
    /\ chat.screen = "chat"
    /\ Len(chat.streams) < MaxStreams
    /\ chat' = [StartStream("input") EXCEPT !.pump = "busy"]
    /\ UNCHANGED ChatRest

\* _stream_agent_response returns; the handler that awaited it returns too
stream_agent_response_returns ==
    /\ \E k \in DOMAIN chat.streams :
          chat' = [chat EXCEPT
                      !.streams = [j \in 1..(Len(@) - 1) |-> IF j < k THEN @[j] ELSE @[j + 1]],
                      !.pump = IF chat.streams[k].from = "input" THEN "free" ELSE @]
    /\ UNCHANGED ChatRest

\* ctrl+r
action_reset_session ==
    /\ chat.pump = "free"
    /\ chat.screen = "chat"
    /\ chat.issued < MaxChatSessions
    /\ chat' = [ResetSession(chat) EXCEPT !.last = ChatCall("reset_session", TRUE)]
    /\ UNCHANGED ChatRest

\* ctrl+s: the dialog lists the stored sessions
action_load_session ==
    /\ chat.pump = "free"
    /\ chat.screen = "chat"
    /\ chat' = [chat EXCEPT !.screen = "sessions", !.listed = chat.stored]
    /\ UNCHANGED ChatRest

\* SessionListScreen.on_button_pressed: Close, Load (the dialog is dismissed
\* and _load_selected_session runs) or Delete (the list is drawn again)
SessionListScreen_on_button_pressed ==
    /\ chat.pump = "free"
    /\ chat.screen = "sessions"
    /\ \/ chat' = [chat EXCEPT !.screen = "chat"]
       \/ \E id \in chat.listed :
             chat' = [chat EXCEPT !.screen = "chat", !.session_id = id,
                                  !.last = ChatCall("load_session", TRUE)]
       \/ \E id \in chat.listed :
             /\ id = chat.session_id => chat.issued < MaxChatSessions
             /\ chat' = [(IF id = chat.session_id THEN ResetSession(chat) ELSE chat) EXCEPT
                            !.stored = @ \ {id},
                            !.listed = chat.stored \ {id},
                            !.last = ChatCall("delete_session", id = chat.session_id)]
    /\ UNCHANGED ChatRest

\* ctrl+l
action_list_tasks ==
    /\ chat.pump = "free"
    /\ chat.screen = "chat"
    /\ chat' = [chat EXCEPT !.screen = "tasks"]
    /\ UNCHANGED ChatRest

\* handle_task_action after the task dialog is dismissed: nothing, or
\* run_worker(_run_selected_task(task_id)), which streams when the task loads
handle_task_action ==
    /\ chat.pump = "free"
    /\ chat.screen = "tasks"
    /\ \/ chat' = [chat EXCEPT !.screen = "chat"]
       \/ /\ Len(chat.streams) < MaxStreams
          /\ chat' = [StartStream("task") EXCEPT !.screen = "chat"]
    /\ UNCHANGED ChatRest

NextChat ==
    \/ on_input_submitted
    \/ stream_agent_response_returns
    \/ action_reset_session
    \/ action_load_session
    \/ SessionListScreen_on_button_pressed
    \/ action_list_tasks
    \/ handle_task_action

SpecChat == InitChat /\ [][NextChat]_vars

----------------------------------------------------------------------------
(* The content extractor as section 4.1 of the specification words it,     *)
(* written without the helpers of the model above.                         *)

RefIsSpace(c) == c = " " \/ c = "\t" \/ c = "\n"

\* s without its leading and trailing whitespace, by the first and the last
\* character that is none
RefStrip(s) ==
    LET solid == {i \in 1..Len(s) : ~RefIsSpace(s[i])}
    IN IF solid = {} THEN <<>>
       ELSE LET first == CHOOSE i \in solid : \A j \in solid : i <= j
                final == CHOOSE i \in solid : \A j \in solid : j <= i
            IN [k \in 1..(final - first + 1) |-> s[first + k - 1]]

RECURSIVE RefText(_)
RECURSIVE RefJoined(_, _)

\* the non-empty extractions of xs[i..], each after the first preceded by a
\* space when some extraction came before it
RefJoined(xs, started) ==
    IF xs = <<>> THEN <<>>
    ELSE LET part == RefText(Head(xs))
         IN IF Len(part) = 0 THEN RefJoined(Tail(xs), started)
            ELSE (IF started THEN <<" ">> ELSE <<>>) \o part \o RefJoined(Tail(xs), TRUE)

RefText(v) ==
    CASE v[1] = "str" -> v[2]
      [] v[1] = "list" -> RefStrip(RefJoined(v[2], FALSE))
      [] v[1] = "dict" ->
            LET textAt == {i \in 1..Len(v[2]) : v[2][i][1] = "text" /\ v[2][i][2][1] = "str"}
                contentAt == {i \in 1..Len(v[2]) : v[2][i][1] = "content"}
            IN IF textAt # {} THEN v[2][CHOOSE i \in textAt : TRUE][2][2]
               ELSE IF contentAt # {} THEN RefText(v[2][CHOOSE i \in contentAt : TRUE][2])
               ELSE <<>>
      [] OTHER -> <<>>

\* the characters a string of the model may hold
Chars ==
    Alphabet \cup Range(DigitChar)
    \cup {"'", "[", "]", "{", "}", ",", ":", "N", "o", "n", "e", "T", "r", "u", "F", "l", "s",
          "t", "x", "c", "m", "g"}

IsText(s) == s \in Seq(Chars)

----------------------------------------------------------------------------
(* Claims about the pure functions, under SpecExtract. *)

\* C8: extract_text returns a string for every JSON value, and the string is
\* the one the reference function of section 4.1 gives: a string unchanged, a
\* list's non-empty extractions joined by one space and stripped, a mapping's
\* string "text", else the extraction of its "content", else the empty string,
\* and the empty string for any other value.
C8_ExtractTextIsReference ==
    output.fn = "extract_text" =>
        /\ IsText(output.ret)
        /\ output.ret = RefText(output.arg)

\* C8 witness: a list nested in a mapping, with a part that extracts to
\* nothing and a part whose whitespace is stripped, has been extracted.
C8_Witness ==
    /\ output.fn = "extract_text"
    /\ IsDict(output.arg)
    /\ ~IsStr(DictGet(output.arg, "text"))
    /\ DictHas(output.arg, "content")
    /\ LET inner == DictItem(output.arg, "content")
       IN /\ IsList(inner)
          /\ Len(inner[2]) = 2
          /\ extract_text(inner[2][1]) = <<>>
          /\ extract_text(inner[2][2]) = <<"a", " ">>
    /\ output.ret = <<"a">>

\* what the preview is cut from when the blob is valid JSON: the text of the
\* payload's content field (of the payload itself when it is no mapping), or,
\* when that is empty, the stringification of the payload
PreviewSource(message_data) ==
    LET text == RefText(IF message_data[1] = "dict"
                          THEN DictGet(message_data, "content")
                          ELSE message_data)
    IN IF Len(text) > 0 THEN text ELSE PyStr(message_data)

IsValidJson(blob) == blob # None /\ blob[2] = "json"

PreviewOfValid(blob, preview) ==
    IsValidJson(blob) =>
        LET source == PreviewSource(blob[3])
        IN /\ preview = Take(source, PreviewLimit)
           /\ Len(source) > PreviewLimit => Len(preview) = PreviewLimit

----------------------------------------------------------------------------
(* Claims about the session store, under SpecSession.  last.before is the  *)
(* state the last call was made in; the variables are the state after it.  *)

DeletedCurrent == last.op = "delete_session" /\ last.arg = last.before.session_id

\* the ids bound or stored when the last call was made
SeenBefore ==
    {last.before.session_id} \cup DOMAIN last.before.sessions
    \cup {last.before.messages[i].session_id : i \in 1..Len(last.before.messages)}

NotOf(rows, sid) == SelectSeq(rows, LAMBDA m : m.session_id # sid)

IsPrefix(s, t) == Len(s) <= Len(t) /\ \A i \in 1..Len(s) : s[i] = t[i]

ReadOps == {"reset_session", "load_session", "get_session_id", "list_sessions",
            "get_session_history"}

\* C4: reset_session, load_session, get_session_id, list_sessions and
\* get_session_history leave every row as it was; delete_session(id) removes
\* no row of another session and adds none; any other step only appends.
C4_OnlyDeleteRemovesRows ==
    /\ last.op \in ReadOps =>
          (sessions = last.before.sessions /\ messages = last.before.messages)
    /\ last.op = "delete_session" =>
          /\ NotOf(messages, last.arg) = NotOf(last.before.messages, last.arg)
          /\ Len(messages) <= Len(last.before.messages)
          /\ DOMAIN sessions \subseteq DOMAIN last.before.sessions
          /\ \A sid \in DOMAIN last.before.sessions \ {last.arg} :
                sid \in DOMAIN sessions /\ sessions[sid] = last.before.sessions[sid]
    /\ last.op # "delete_session" =>
          /\ IsPrefix(last.before.messages, messages)
          /\ DOMAIN last.before.sessions \subseteq DOMAIN sessions

\* C4 witness: a session with messages was deleted while another session
\* kept its messages.
C4_Witness ==
    /\ last.op = "delete_session"
    /\ last.ret = TRUE
    /\ MessagesOf(last.before.messages, last.arg) # <<>>
    /\ messages # <<>>
    /\ Cardinality(DOMAIN sessions) >= 1

ListingSucceeded == last.op = "list_sessions" /\ db_exists /\ ~last.failed

\* how many rows of agent_messages are of session sid
StoredCount(sid) == Cardinality({i \in 1..Len(messages) : messages[i].session_id = sid})

\* C5: a listing that succeeds has one entry per session row, the entries are
\* in the order of updated_at from the latest to the oldest, and each
\* message_count is the number of stored messages of the session: 0 for a
\* session without messages, which is listed all the same.
C5_ListingOrderAndCount ==
    ListingSucceeded =>
        LET entries == last.ret
        IN /\ Len(entries) = Cardinality(DOMAIN sessions)
           /\ {entries[i].session_id : i \in 1..Len(entries)} = DOMAIN sessions
           /\ \A i \in 1..Len(entries) :
                 /\ entries[i].message_count = StoredCount(entries[i].session_id)
                 /\ entries[i].last_message = sessions[entries[i].session_id].updated_at
           /\ \A i, j \in 1..Len(entries) :
                 i < j => entries[i].last_message >= entries[j].last_message

\* C5 witness: the listing holds a session with a message, updated later,
\* before a session without messages whose message_count is 0.
C5_Witness ==
    /\ ListingSucceeded
    /\ Len(last.ret) = 2
    /\ last.ret[1].message_count = 1
    /\ last.ret[2].message_count = 0
    /\ last.ret[1].last_message > last.ret[2].last_message
    /\ last.ret[2].preview = NoMessages

\* the k-th row of agent_messages of session sid, in stored order
KthOf(sid, k) ==
    LET own == {i \in 1..Len(messages) : messages[i].session_id = sid}
    IN messages[CHOOSE i \in own : Cardinality({j \in own : j <= i}) = k]

----------------------------------------------------------------------------
(* The event classifier. *)

Classified == output.fn = "event_payloads"

Has(obj, name) == name \in DOMAIN obj

PayloadTypes ==
    {"text_delta", "reasoning_delta", "tool_call", "tool_output", "agent_update",
     "reasoning_summary", "error"}

\* the category tag of an event: none when the event carries no tag
Category(e) == IF Has(e, "type") THEN e.type ELSE "none"

\* the delta of class cls that a raw-response event carries: empty when it carries none
DeltaOf(e, cls) ==
    IF Has(e, "data") /\ e.data.cls = cls /\ Has(e.data, "delta") THEN e.data.delta ELSE <<>>

\* C9: the classifier returns for every event, with at most one payload whose
\* type is in the closed set: a raw-response event gives reasoning_delta or
\* text_delta exactly for a non-empty delta of that kind; a run-item event gives
\* tool_call with the name ("unknown" when absent), tool_output with the output
\* as a string, reasoning_summary exactly for a non-empty summary, and nothing
\* for another item; an agent-updated event gives agent_update with the agent's
\* name ("unknown" when absent); any other category gives nothing.
C9_ClassifierTotalAndClosed ==
    Classified =>
        LET e == output.arg
            ps == output.ret
            item == IF Has(e, "item") THEN e.item ELSE NoneObject
            kind == Category(item)
        IN  /\ Len(ps) <= 1
            /\ \A i \in 1..Len(ps) : ps[i].type \in PayloadTypes
            /\ Category(e) = "raw_response_event" =>
                  /\ DeltaOf(e, "ResponseReasoningTextDeltaEvent") # <<>> =>
                        ps = <<[type |-> "reasoning_delta",
                                content |-> DeltaOf(e, "ResponseReasoningTextDeltaEvent")]>>
                  /\ DeltaOf(e, "ResponseTextDeltaEvent") # <<>> =>
                        ps = <<[type |-> "text_delta",
                                content |-> DeltaOf(e, "ResponseTextDeltaEvent")]>>
                  /\ (/\ DeltaOf(e, "ResponseReasoningTextDeltaEvent") = <<>>
                      /\ DeltaOf(e, "ResponseTextDeltaEvent") = <<>>) => ps = <<>>
            /\ Category(e) = "run_item_stream_event" =>
                  /\ kind = "tool_call_item" =>
                        ps = <<[type |-> "tool_call",
                                name |-> IF Has(item, "name") THEN item.name ELSE Unknown]>>
                  /\ kind = "tool_call_output_item" =>
                        ps = <<[type |-> "tool_output",
                                output |-> IF Has(item, "output") THEN PyStr(item.output)
                                           ELSE <<>>]>>
                  /\ kind = "reasoning" =>
                        ps = IF Has(item, "summary") /\ item.summary # <<>>
                             THEN <<[type |-> "reasoning_summary", content |-> item.summary]>>
                             ELSE <<>>
                  /\ kind \notin {"tool_call_item", "tool_call_output_item", "reasoning"} =>
                        ps = <<>>
            /\ Category(e) = "agent_updated_stream_event" =>
                  ps = <<[type |-> "agent_update",
                          name |-> IF Has(e, "new_agent") /\ Has(e.new_agent, "name")
                                   THEN e.new_agent.name ELSE Unknown]>>
            /\ Category(e) \notin {"raw_response_event", "run_item_stream_event",
                                   "agent_updated_stream_event"} => ps = <<>>

\* an empty reasoning delta was classified, and nothing was yielded for it
C9_Witness ==
    /\ Classified
    /\ Category(output.arg) = "raw_response_event"
    /\ Has(output.arg, "data")
    /\ output.arg.data.cls = "ResponseReasoningTextDeltaEvent"
    /\ output.arg.data.delta = <<>>
    /\ output.ret = <<>>

----------------------------------------------------------------------------
(* The streamed runner. *)

ErrorPositions(events) == {i \in 1..Len(events) : events[i].type = "error"}

\* C10: no exception reaches the consumer of run_async_streamed: after a
\* failure while the agent is obtained or while the stream is consumed, the
\* consumer has received exactly one error event, and it is the last event.
C10_NoExceptionReachesConsumer ==
    stream.called =>
        /\ stream.raised = "none"
        /\ stream.failure # "none" =>
              ErrorPositions(stream.events) = {Len(stream.events)}
        /\ stream.failure = "none" => ErrorPositions(stream.events) = {}

----------------------------------------------------------------------------
(* OllamaAgent's streamed run. *)

\* the model a run selects: the one it is given, else the agent's own
SelectedModel == Or(stream.model, ollama_agent.model)

LacksTools(model) == model \in InstalledModels /\ "tools" \notin Capabilities(model)

InReasoning ==
    CASE turn.frontend = "cli" -> renderer.reasoning
      [] turn.frontend = "main" -> renderer.reasoning_active
      [] turn.frontend = "tui" -> renderer.reasoning.is_active

\* the Live region of a terminal renderer is open, by its flag or in fact
LiveOpen ==
    /\ turn.frontend \in {"cli", "main"}
    /\ renderer.live_active \/ renderer.live = "started"

\* the positions of the received events of a type
Arrivals(type) == {i \in 1..Len(turn.received) : turn.received[i].type = type}

\* C12: in the terminal renderers (cli.py, main.py) the reasoning block and
\* the live region of the answer are never open at the same time, whatever
\* events arrived
C12_ReasoningAndAnsweringExclusive ==
    turn.frontend \in {"cli", "main"} => ~(InReasoning /\ LiveOpen)

\* a reasoning delta arrived while the live region was open, and opened the
\* reasoning block
C12_Witness ==
    /\ turn.frontend \in {"cli", "main"}
    /\ InReasoning
    /\ \E i \in Arrivals("text_delta") :
          /\ i + 1 \in Arrivals("reasoning_delta")
          /\ i + 1 = Len(turn.received)


\* what the renderer wrote: the console of a terminal renderer, the lines of
\* the chat log of the TUI
Log == IF turn.frontend = "tui" THEN renderer.lines ELSE renderer.console

\* every entry the renderer ever wrote, the lines later popped included
Emitted == IF turn.frontend = "tui" THEN renderer.written ELSE renderer.console

Entries(log, what) == SelectSeq(log, LAMBDA entry : entry.what = what)

\* the contents of the entries of a kind, joined in the order they were written
Shown(log, what) ==
    LET entries == Entries(log, what)
    IN  PyJoin(<<>>, [i \in 1..Len(entries) |-> entries[i].content])

\* the part of a log before the first entry of a kind, and after the last
Before(log, what) ==
    IF \E i \in 1..Len(log) : log[i].what = what
    THEN SubSeq(log, 1, (CHOOSE i \in 1..Len(log) :
                            /\ log[i].what = what
                            /\ \A j \in 1..(i - 1) : log[j].what # what) - 1)
    ELSE log

After(log, what) ==
    IF \E i \in 1..Len(log) : log[i].what = what
    THEN SubSeq(log, (CHOOSE i \in 1..Len(log) :
                         /\ log[i].what = what
                         /\ \A j \in (i + 1)..Len(log) : log[j].what # what) + 1, Len(log))
    ELSE log

\* the contents of the received events of a type, joined in order of arrival
RECURSIVE ContentsOf(_, _)
ContentsOf(events, type) ==
    IF events = <<>> THEN <<>>
    ELSE (IF Head(events).type = type THEN Head(events).content ELSE <<>>)
             \o ContentsOf(Tail(events), type)

\* the buffer of the answer
AnswerBuffer ==
    CASE turn.frontend = "cli" -> PyJoin(<<>>, renderer.text)
      [] turn.frontend = "main" -> renderer.text_buffer
      [] turn.frontend = "tui" -> renderer.text.buffer

\* the names of the entries of a front end: the line that carries the header
\* of a reasoning block, the entries that carry its tokens, and its close
HeaderEntry == IF turn.frontend = "tui" THEN "thinking" ELSE "thinking_header"
TokenEntry == IF turn.frontend = "tui" THEN "thinking" ELSE "reasoning"
CloseEntry == IF turn.frontend = "tui" THEN "blank" ELSE "newline"

\* the turn so far is one or more reasoning deltas, then one or more text deltas
ReasoningThenText ==
    \E k \in 1..(Len(turn.received) - 1) :
        /\ \A i \in 1..k : turn.received[i].type = "reasoning_delta"
        /\ \A i \in (k + 1)..Len(turn.received) : turn.received[i].type = "text_delta"

\* C13: in every front end and for every sequence of events the "Agent:"
\* banner is written at most once in a turn and the answer buffer is the
\* concatenation of the text deltas alone; when the turn is reasoning deltas
\* followed by text deltas the renderer shows one reasoning header, the
\* reasoning tokens in order of arrival, exactly one close of the reasoning
\* block before the banner, and the banner once
C13_ReasoningThenAnswer ==
    /\ Len(Entries(Emitted, "agent_banner")) <= 1
    /\ AnswerBuffer = ContentsOf(turn.received, "text_delta")
    /\ ReasoningThenText =>
          /\ Len(Entries(Log, HeaderEntry)) = 1
          /\ Shown(Log, TokenEntry) = ContentsOf(turn.received, "reasoning_delta")
          /\ Len(Entries(Before(After(Log, TokenEntry), "agent_banner"), CloseEntry)) = 1
          /\ Len(Entries(Emitted, "agent_banner")) = 1

\* the console renderer received reasoning "a", "b" and then text "c", "d"
C13_Witness ==
    /\ turn.frontend = "cli"
    /\ ReasoningThenText
    /\ ContentsOf(turn.received, "reasoning_delta") = <<"a", "b">>
    /\ AnswerBuffer = <<"c", "d">>


\* C14: once a text delta of the turn has been rendered the renderer is never
\* in reasoning mode again in that turn, whatever events arrive
C14_NoReasoningAfterText ==
    Arrivals("text_delta") # {} => ~InReasoning


\* the last rendering of the answer on screen: the last update of the live
\* region, or the last Markdown line of the chat log
LastRendered(what) ==
    LET entries == Entries(Emitted, what)
    IN  IF entries = <<>> THEN <<>> ELSE entries[Len(entries)].content

\* C15: when an error event arrives the loop stops: the error is the last
\* event taken from the stream and nothing after it reaches a handler, with
\* or without an on_error callback and with "error" in the ignore set or not;
\* the error notice is printed once when the callback is given, and the text
\* rendered before the error is still what the answer shows
C15_ErrorStopsDispatch ==
    Arrivals("error") # {} =>
        /\ Arrivals("error") = {Len(turn.received)}
        /\ turn.phase # "streaming"
        /\ turn.exit = "error"
        /\ \A i \in 1..Len(turn.dispatched) :
              turn.dispatched[i].type = "error" => i = Len(turn.dispatched)
        /\ Len(Entries(Emitted, "error")) = IF turn.on_error THEN 1 ELSE 0
        /\ AnswerBuffer = ContentsOf(turn.received, "text_delta")
        /\ turn.frontend \in {"cli", "main"} /\ AnswerBuffer # <<>> =>
              LastRendered("update") = AnswerBuffer

\* stream_agent_events was called without on_error and with "error" among the
\* ignored types; an error event followed a text delta and the turn is over
C15_Witness ==
    /\ turn.frontend = "cli"
    /\ ~turn.on_error
    /\ "error" \in turn.ignore
    /\ turn.phase = "done"
    /\ \E i \in Arrivals("text_delta") : i + 1 \in Arrivals("error")


\* C16: however the loop of a terminal front end was left (the stream ended,
\* an error event, an exception out of the stream, cancellation), once the
\* clauses around it ran the reasoning block is closed, the live region is
\* stopped after a last render of the whole answer, the last thing written is
\* the trailing blank line, and the agent's cleanup ran
C16_FinalizedOnEveryExit ==
    (turn.frontend \in {"cli", "main"} /\ turn.phase = "done") =>
        /\ ~InReasoning
        /\ renderer.live = "stopped"
        /\ AnswerBuffer # <<>> => LastRendered("update") = AnswerBuffer
        /\ renderer.console # <<>>
        /\ renderer.console[Len(renderer.console)] = Out("print", "newline", <<>>)
        /\ turn.cleanup
        /\ ollama_agent.mcp_servers = <<>>


\* C17: in the TUI, for every sequence of text deltas, the answer on screen
\* when the turn is over is one Markdown block holding the concatenation of
\* the deltas in order of arrival; the block is redrawn at every
\* UpdateFrequency-th token and once more when the turn is finalized, and at
\* no other time
C17_FinalRenderIsWholeAnswer ==
    (turn.frontend = "tui" /\ turn.source = "text") =>
        LET tokens == Len(turn.received)
            redraws == Len(Entries(renderer.written, "markdown"))
        IN  /\ renderer.text.buffer = ContentsOf(turn.received, "text_delta")
            /\ turn.phase # "done" => redraws = tokens \div UpdateFrequency
            /\ turn.phase = "done" =>
                  /\ redraws = (tokens \div UpdateFrequency) + (IF tokens > 0 THEN 1 ELSE 0)
                  /\ Shown(renderer.lines, "markdown")
                        = ContentsOf(turn.received, "text_delta")
                  /\ Len(Entries(renderer.lines, "markdown")) = IF tokens > 0 THEN 1 ELSE 0

\* a finished turn whose last tokens arrived after the last redraw of the cadence
C17_Witness ==
    /\ turn.frontend = "tui"
    /\ turn.source = "text"
    /\ turn.phase = "done"
    /\ Len(turn.received) > UpdateFrequency
    /\ Len(turn.received) % UpdateFrequency # 0


\* the type of the last received event that opens or closes a reasoning
\* block: a reasoning delta opens one, a text delta or a tool call closes it
LastModeEvent ==
    LET at == Arrivals("text_delta") \cup Arrivals("reasoning_delta") \cup Arrivals("tool_call")
    IN  IF at = {} THEN "none"
        ELSE turn.received[CHOOSE i \in at : \A j \in at : j <= i].type

\* C14, as the renderers have it: while the loop runs or was just left, the
\* renderer is in reasoning mode exactly when a reasoning delta arrived since
\* the last text delta or tool call, also after text was rendered; the text
\* rendered before stays in the answer buffer
C14_ReasoningFollowsLastDelta ==
    turn.phase # "done" =>
        /\ InReasoning <=> LastModeEvent = "reasoning_delta"
        /\ AnswerBuffer = ContentsOf(turn.received, "text_delta")

\* text was rendered, then a reasoning delta arrived and opened a block, then
\* text closed it again
C14_Witness ==
    /\ turn.frontend = "cli"
    /\ turn.phase = "streaming"
    /\ ~InReasoning
    /\ \E i \in Arrivals("text_delta") :
          /\ i + 1 \in Arrivals("reasoning_delta")
          /\ i + 2 \in Arrivals("text_delta")
          /\ i + 2 = Len(turn.received)


----------------------------------------------------------------------------
(* Claims about the task store, under SpecTasks. *)

\* C18: the task store is the map task_map: load_task(id) returns the task
\* last saved under id and not deleted since, and None otherwise; save_task
\* returns compute_task_id of the title, HASH_LENGTH characters long, and
\* replaces what was stored under it; delete_task returns true exactly when a
\* file was stored under id and is there no more
C18_TaskStoreIsMap ==
    /\ \A stem \in TaskStems : TaskManager_load_task(tasks_dir, stem) = task_map[stem]
    /\ task_call.op = "load" => task_call.ret = task_call.stored[task_call.arg]
    /\ task_call.op = "save" =>
          /\ task_call.ret = compute_task_id(task_call.arg[2].title)
          /\ Len(task_call.ret) = HASH_LENGTH
          /\ task_map[task_call.ret] = task_call.arg
          /\ \A stem \in TaskStems \ {task_call.ret} : task_map[stem] = task_call.stored[stem]
    /\ task_call.op = "delete" =>
          /\ task_call.ret <=> /\ task_call.before[task_call.arg] # NoFile
                               /\ tasks_dir[task_call.arg] = NoFile
          /\ ~task_call.ret => tasks_dir = task_call.before
          /\ \A stem \in TaskStems \ {task_call.arg} : tasks_dir[stem] = task_call.before[stem]

\* a task that save_task had stored was deleted
C18_Witness ==
    /\ task_call.op = "delete"
    /\ task_call.ret
    /\ task_call.stored[task_call.arg] \in ValidTasks


Allowed(effort) == effort \in Range(ALLOWED_REASONING_EFFORTS)

\* what yaml.safe_load reads from the file of a stem
StoredRecord(dir, stem) == yaml_safe_load(dir[stem]).value

\* C19: for every valid task, load_task(save_task(task)) is the task in
\* title, prompt, model and reasoning effort, and the record written holds
\* that effort, one of the allowed; a stored record whose effort is missing or
\* not allowed loads with the default effort, so that the effort of every
\* loaded task is allowed
C19_SaveLoadRoundTrip ==
    /\ task_call.op = "save" =>
          /\ Allowed(task_call.arg[2].reasoning_effort)
          /\ TaskManager_load_task(tasks_dir, task_call.ret) = task_call.arg
          /\ DictItem(StoredRecord(tasks_dir, task_call.ret), "reasoning_effort")
                = task_call.arg[2].reasoning_effort
    /\ \A stem \in TaskStems :
          LET task == TaskManager_load_task(tasks_dir, stem)
          IN  task # None =>
                  /\ Allowed(task[2].reasoning_effort)
                  /\ LET data == StoredRecord(tasks_dir, stem)
                     IN  (~DictHas(data, "reasoning_effort")
                             \/ ~Allowed(DictItem(data, "reasoning_effort")))
                         => task[2].reasoning_effort = DEFAULT_REASONING_EFFORT

\* a task whose title and prompt read as an int and a bool was saved, beside a
\* record written by hand whose effort is not allowed
C19_Witness ==
    /\ task_call.op = "save"
    /\ task_call.arg[2].title = Named("1")
    /\ task_call.arg[2].prompt = Named("true")
    /\ tasks_dir[HandStem] # NoFile
    /\ TaskManager_load_task(tasks_dir, HandStem) # None
    /\ DictHas(StoredRecord(tasks_dir, HandStem), "reasoning_effort")


\* the titles of a listing, in its order
Titles(listing) == [i \in 1..Len(listing) |-> listing[i][2][2].title]

\* the listing holds every stem whose file loads exactly once, with its task
ListsEveryLoadable ==
    LET listing == task_call.ret
    IN  /\ \A stem \in TaskStems :
              Cardinality({i \in 1..Len(listing) : listing[i][1] = stem})
                  = IF TaskManager_load_task(tasks_dir, stem) # None THEN 1 ELSE 0
        /\ \A i \in 1..Len(listing) :
              listing[i][2] = TaskManager_load_task(tasks_dir, listing[i][1])

StartsWith(id, prefix) == Len(prefix) <= Len(id) /\ Take(id, Len(prefix)) = prefix

Candidates(prefix) == {id \in TaskStems : task_map[id] # None /\ StartsWith(id, prefix)}

\* C21: find_task_by_prefix(p) returns (id, task) exactly when id is the only
\* stored task id that starts with p, and None when no stored id or more than
\* one starts with p; it never returns an id that does not start with p.
C21_FindsOnlyPrefixedId ==
    task_call.op = "find" =>
        IF Cardinality(Candidates(task_call.arg)) = 1
        THEN \E id \in Candidates(task_call.arg) : task_call.ret = <<id, task_map[id]>>
        ELSE task_call.ret = None

\* load_task and list_tasks still return, after the call, what was stored
\* under stem before it
StillReturned(stem) ==
    /\ TaskManager_load_task(tasks_dir, stem) = task_call.stored[stem]
    /\ \A found \in GlobOrders(tasks_dir) :
          \E i \in DOMAIN TaskManager_list_tasks(tasks_dir, found) :
              TaskManager_list_tasks(tasks_dir, found)[i] = <<stem, task_call.stored[stem]>>

\* C30 as stated: save_task(task) changes only the stored record of
\* task.title: every task stored earlier under a different title is still
\* returned unchanged by load_task and list_tasks after the save.
C30_SaveKeepsOtherTitles ==
    task_call.op = "save" =>
        \A stem \in TaskStems :
            /\ task_call.stored[stem] # None
            /\ Bind(task_call.stored[stem], LAMBDA task : task[2].title) # task_call.arg[2].title
            => StillReturned(stem)

\* C30 amended: save_task(task) changes only the record stored under
\* compute_task_id(task.title): every task stored earlier under another id
\* is still returned unchanged by load_task and list_tasks after the save,
\* while a task of another title whose id is the same is replaced by the
\* saved task.
C30_SaveKeepsOtherIds ==
    task_call.op = "save" =>
        /\ \A stem \in TaskStems \ {compute_task_id(task_call.arg[2].title)} :
              task_call.stored[stem] # None => StillReturned(stem)
        /\ TaskManager_load_task(tasks_dir, compute_task_id(task_call.arg[2].title))
              = task_call.arg

\* a task was saved while a task of another title was stored under its id and
\* a third under another id
C30_Witness ==
    /\ task_call.op = "save"
    /\ \E stem \in TaskStems \ {task_call.ret} :
          task_call.stored[stem] \in ValidTasks /\ StillReturned(stem)
    /\ task_call.stored[task_call.ret] \in ValidTasks
    /\ Bind(task_call.stored[task_call.ret], LAMBDA task : task[2].title) # task_call.arg[2].title

----------------------------------------------------------------------------
(* Claims about the events that are not rendered, under SpecRender. *)

\* the renderer after one more event of the stream
AfterEvent(event) ==
    CASE turn.frontend = "cli" ->
            stream_agent_events_pass(renderer, event, turn.on_error, turn.ignore).self
      [] turn.frontend = "main" -> Main_run_non_interactive_pass(renderer, event).self
      [] turn.frontend = "tui" -> Tui_stream_agent_response_pass(renderer, event).self

EventsOfType(type) == {event \in RenderEvents : event.type = type}

\* an agent_update event leaves the rendered output as it is
AgentUpdateIsSilent ==
    turn.phase = "streaming" =>
        \A event \in EventsOfType("agent_update") : AfterEvent(event) = renderer

\* a reasoning_summary writes nothing in the terminal renderers, and nothing
\* in the TUI while a reasoning block is open
SummaryOtherwiseSilent ==
    turn.phase = "streaming" /\ (turn.frontend # "tui" \/ InReasoning) =>
        \A event \in EventsOfType("reasoning_summary") : AfterEvent(event) = renderer

\* C25: agent_update events never change the rendered output; a
\* reasoning_summary is surfaced at most once per turn and only in a turn in
\* which no live reasoning was shown, and has no effect otherwise.
C25_SummaryOnceAndOnlyWithoutLiveReasoning ==
    /\ AgentUpdateIsSilent
    /\ SummaryOtherwiseSilent
    /\ Len(Entries(Emitted, "reasoning_summary")) <= 1
    /\ Entries(Emitted, "reasoning_summary") # <<>> => Entries(Emitted, "thinking") = <<>>


\* the reasoning blocks that were finished: finalize_reasoning draws the block
\* a last time and writes a blank line after it
FinishedReasoning ==
    {i \in 1..(Len(Emitted) - 1) : Emitted[i].what = "thinking" /\ Emitted[i + 1].what = "blank"}

\* the lines of a kind that the chat log holds are all those written
AllPresent(what) == Len(Entries(Log, what)) = Len(Entries(Emitted, what))

\* C28: in the TUI every line written to the chat log during a turn by
\* something other than the answer renderer (a tool-call notice, a
\* tool-output preview, a finished reasoning block) is still in the log at
\* the end of the turn: redraws of the answer remove only lines of earlier
\* redraws of the answer, redraws of the reasoning only lines of the current
\* reasoning block.
C28_OtherLinesSurviveRedraws ==
    turn.frontend = "tui" /\ turn.phase = "done" =>
        /\ AllPresent("tool_call")
        /\ AllPresent("tool_output")
        /\ Len(Entries(Log, "thinking")) = Cardinality(FinishedReasoning)

----------------------------------------------------------------------------
(* Claims about the message a preview is taken from, under SpecSession. *)

----------------------------------------------------------------------------
(* Claims about the agents handed to a run, under SpecAgent. *)

\* the requests a run may make of _get_agent in the current state
AgentRequests == ModelArgs \X EffortArgs \X EnvironmentsFor(ollama_agent)

Requested(self, cache, request, env) ==
    OllamaAgent_get_agent(self, cache, request[1], request[2], env)

\* the agent returned was built with the servers that run when it is returned
BuiltWithRunningServers(got) == got.out.ok => got.out.value.mcp_servers = got.self.mcp_servers

\* a second request for the same model and effort, with the same servers
\* running, returns the agent of the first
SameAgentAgain(got, request) ==
    got.out.ok =>
        \A env \in EnvironmentsFor(got.self) :
            Bind(Requested(got.self, got.cache, request, env), LAMBDA again :
                again.out.ok /\ again.self.mcp_servers = got.self.mcp_servers
                    => again.out.value = got.out.value)

\* C29: repeated requests for the same (model, effort) return the same cached
\* agent, and after any sequence of server initialization, agent requests and
\* cleanup, an agent returned for a run was built with exactly the MCP servers
\* that are running at that moment, never with servers that were shut down.
C29_AgentBuiltWithRunningServers ==
    \A request \in AgentRequests :
        Bind(Requested(ollama_agent, capabilities_cache, request, request[3]), LAMBDA got :
            BuiltWithRunningServers(got) /\ SameAgentAgain(got, request))

----------------------------------------------------------------------------
(* Claims about the built-in tools, under SpecTools. *)

\* the limit in force at a call: the one set last, or the module's own
LimitInForce == IF tool_result.set = None THEN DefaultBuiltinToolTimeout ELSE tool_result.set[2]

RanToEnd(command) == command.fails = "no" /\ command.seconds <= LimitInForce

TimedOut(command) == command.fails = "no" /\ command.seconds > LimitInForce

\* a memory tool returns the payload on success and success false with an
\* error message for every exception
MemoryToolsNeverRaise ==
    tool_result.tool \in {"mem0_add_memory", "mem0_search_memory"} =>
        /\ tool_result.out.ok
        /\ IF tool_result.arg.ok
           THEN tool_result.out.value = [success |-> TRUE, data |-> tool_result.arg.value]
           ELSE /\ ~tool_result.out.value.success
                /\ DOMAIN tool_result.out.value = {"success", "error"}
                /\ tool_result.out.value.error # <<>>

\* execute_command returns a result, success says that the exit code is 0,
\* and the time limit applied is the one set last
CommandNeverRaises ==
    tool_result.tool = "execute_command" =>
        /\ tool_result.out.ok
        /\ DOMAIN tool_result.out.value = {"success", "stdout", "stderr", "exit_code"}
        /\ tool_result.out.value.success <=> tool_result.out.value.exit_code = 0
        /\ RanToEnd(tool_result.arg) =>
              /\ tool_result.out.value.exit_code = tool_result.arg.returncode
              /\ tool_result.out.value.stdout = tool_result.arg.stdout
              /\ tool_result.out.value.stderr = tool_result.arg.stderr
        /\ ~RanToEnd(tool_result.arg) => ~tool_result.out.value.success
        /\ TimedOut(tool_result.arg) =>
              tool_result.out.value.stderr = <<"exceeded the time limit", LimitInForce>>

\* C22 as stated: the built-in tools never raise; execute_command returns,
\* for a command that times out, exits non-zero or cannot be started, a
\* result with success false, the captured stdout and stderr and an exit
\* code; success is true exactly when the exit code is 0; the timeout applied
\* is the one set last; the memory tools return success false with an error
\* message instead of raising.
C22_FailureCarriesCapturedOutput ==
    /\ MemoryToolsNeverRaise
    /\ CommandNeverRaises
    /\ tool_result.tool = "execute_command" /\ tool_result.arg.fails = "no" =>
          /\ tool_result.out.value.stdout = tool_result.arg.stdout
          /\ tool_result.out.value.stderr = tool_result.arg.stderr

\* C22 amended: the built-in tools never raise.  For a command that runs to
\* its end within the limit, execute_command returns its captured stdout,
\* stderr and exit code, with success true exactly when the exit code is 0.
\* For a command that times out or cannot be run it returns success false,
\* the exit code -1, an empty stdout and an error message in place of stderr:
\* what the command wrote before the time limit is not returned.  The limit
\* applied is the one set last by set_builtin_tool_timeout before the command
\* started.  The memory tools return success false with an error message
\* instead of raising.
C22_FailureCarriesErrorMessage ==
    /\ MemoryToolsNeverRaise
    /\ CommandNeverRaises
    /\ tool_result.tool = "execute_command" /\ ~RanToEnd(tool_result.arg) =>
          /\ tool_result.out.value.exit_code = -1
          /\ tool_result.out.value.stdout = <<>>
          /\ tool_result.out.value.stderr \in
                {<<"exceeded the time limit", LimitInForce>>,
                 <<"Error executing command", tool_result.arg.fails>>}

\* a command that had written to stdout was killed at a limit set from the
\* command line, which the default limit would not have killed
C22_Witness ==
    /\ tool_result.tool = "execute_command"
    /\ tool_result.set # None
    /\ TimedOut(tool_result.arg)
    /\ tool_result.arg.seconds <= DefaultBuiltinToolTimeout
    /\ tool_result.arg.stdout # <<>>
    /\ ~tool_result.out.value.success

----------------------------------------------------------------------------
(* Claims about the connections to the MCP servers, under SpecMcp. *)

\* the connections made by the initialization of the last call
MadeByCall == {id \in ConnectionIds : id[1] = mcp.generation}

InitializationRaisedLeavingOneRunning ==
    /\ mcp.call.op = "initialize"
    /\ mcp.call.raised = "Exception"
    /\ \E id \in MadeByCall : mcp.conns[id].status = "running" /\ id \notin Range(mcp.servers)

----------------------------------------------------------------------------
(* Claims about the Mem0 manager, under SpecMem0. *)

\* since the active settings last changed, at most one Memory was built
OneBuildPerActiveSettings == mem0.builds <= 1

\* a configure_mem0 call that raises Mem0InitializationError has written
\* neither global
BootstrapFailureWritesNothing ==
    [][\A t \in Threads :
          (/\ mem0.threads[t].op = "configure_mem0"
           /\ mem0.threads[t].pc # "idle"
           /\ mem0'.threads[t].result = "Mem0InitializationError")
          => /\ mem0'.active_settings = mem0.active_settings
             /\ mem0'.memory_instance = mem0.memory_instance
             /\ mem0.threads[t].pc = "cfg_bootstrap"]_vars

\* C27: under any interleaving of configure_mem0, add_memory_entry and
\* search_memories on different threads, at most one Memory instance is built
\* per active settings value, and whenever a cached Memory instance exists it
\* was built from the currently active settings.
C27_CachedInstanceBuiltFromActiveSettings ==
    /\ OneBuildPerActiveSettings
    /\ mem0.memory_instance # "None" => mem0.memory_instance = mem0.active_settings

\* a thread uses an instance built from settings that are no longer active
StaleInstanceInUse ==
    \E t \in Threads :
        /\ mem0.threads[t].pc = "use"
        /\ mem0.threads[t].memory # mem0.active_settings
        /\ mem0.memory_instance = mem0.threads[t].memory

----------------------------------------------------------------------------
(* Claims about the chat screen, under SpecChat. *)

\* the handlers the claim names: a session change or the start of a response
ChangesSessionOrStarts ==
    \/ chat.last.op \in {"reset_session", "load_session", "stream"}
    \/ chat.last.op = "delete_session" /\ chat.last.current

\* no such handler took effect while a response started from the input box was
\* in flight
SerializedAgainstInputBox ==
    ChangesSessionOrStarts => "input" \notin Range(chat.last.inflight)

\* C24: while a streamed response is in flight, started from the input box or
\* from a saved task, no reset_session, load_session or deletion of the
\* current session takes effect and no second streamed response starts
\* rendering into the same chat log.
C24_SessionChangesSerialized ==
    ChangesSessionOrStarts => chat.last.inflight = <<>>

\* the session was reset while the response of a saved task was streaming
\* against the session it replaced
ResetUnderRunningTask ==
    /\ chat.last.op = "reset_session"
    /\ \E k \in DOMAIN chat.streams :
          chat.streams[k].from = "task" /\ chat.streams[k].session # chat.session_id

====
